---- MODULE Spec2Model ----
(***************************************************************************)
(* location2gpx: the track generator (generator/tracker.rs), the sources   *)
(* (sources/csv_file.rs, sources/mongo.rs) and the loading of the          *)
(* configuration (main.rs) as a state machine.  Tracker::build,            *)
(* SourceToTracks::build, the fetch of a source and load_configs are pure  *)
(* functions of their inputs; the actions draw the inputs from bounded     *)
(* sets and apply them.                                                    *)
(*                                                                         *)
(* Encodings                                                               *)
(*   String          a tuple of byte values ("d1" is <<100, 49>>); Rust's  *)
(*                   Ord on String is the lexicographic order of the bytes *)
(*   Option<T>       <<>> is None, <<v>> is Some(v)                        *)
(*   OffsetDateTime  [unix |-> seconds since the epoch (the instant),      *)
(*                    offset |-> the UTC offset in seconds]                *)
(*   Point           [x |-> longitude, y |-> latitude], integers           *)
(*   f64 tolerance   an integer t; areas are compared doubled (2 * area)   *)
(*   id              ghost field: which RawPosition a reference or a       *)
(*                   waypoint derives from (its index in the input)        *)
(*   fetch_calls     ghost variable: how often source.fetch was called     *)
(*   called          ghost variable: the argument of the last source() on  *)
(*                   the tracker, and whether configure_segments() was     *)
(*                   called on it                                          *)
(*   format_fails    ghost field of a DevicePosition: time's format, called *)
(*                   on its timestamp, returns Err(error::Format)          *)
(*   StringRecord    a tuple of Strings; a CSV reader is its header and    *)
(*                   its records, each a Result                            *)
(*   Bson            [type |-> the variant, value |-> its content]; a      *)
(*                   Document is a tuple of <<key, value>> entries, an f64 *)
(*                   of a document a number of tenths                      *)
(*   YAML mapping    a function from the keys it has to their values       *)
(*   error messages  the fixed part of the message; a backtick of the      *)
(*                   source's text is left out                             *)
(***************************************************************************)
EXTENDS Integers, Sequences, FiniteSets, TLC

VARIABLES pc, tracker, called, positions, track, fetched, fetch_calls,
          segment_confs, tracks, csv, mongo, files, configs

vars == <<pc, tracker, called, positions, track, fetched, fetch_calls,
          segment_confs, tracks, csv, mongo, files, configs>>

\* ------------------------------------------------------------------ bounds
\* longest list of positions handed to Tracker::build / returned by fetch
MaxLen == 3
\* unix timestamps handed to Tracker::build range over -MaxTime..MaxTime
MaxTime == 2
\* max_duration ranges over 0..MaxDur, plus the default
MaxDur == 2
\* fetched timestamps range over the whole hours -MaxHour..0
MaxHour == 1

\* ------------------------------------------------------------- Option<T>
None == <<>>

Some(v) == <<v>>

IsSome(o) == o # <<>>

Unwrap(o) == o[1]

\* --------------------------------------------------------------- strings
\* "d1", "d2"
Dev1 == <<100, 49>>

Dev2 == <<100, 50>>

\* "run"
TrackNames == { <<114, 117, 110>> }

\* "app", "gps"
App == <<97, 112, 112>>

Gps == <<103, 112, 115>>

Apps == { App, Gps }

\* Ord for String (and for any Vec of integers): lexicographic, a proper
\* prefix first
RECURSIVE StrLess(_, _)
StrLess(a, b) ==
    IF b = <<>> THEN FALSE
    ELSE IF a = <<>> THEN TRUE
    ELSE IF a[1] # b[1] THEN a[1] < b[1]
    ELSE StrLess(Tail(a), Tail(b))

\* --------------------------------------------------------------- tracker.rs
\* TrackSegmentOptions::default(), tracker.rs:107-114
DefaultMaxDuration == 300

TrackSegmentOptionsDefault ==
    [max_duration |-> DefaultMaxDuration, vw_tolerance |-> None]

\* `((unix as f64 / max_time).floor() * max_time) as i64`, tracker.rs:62-64.
\* The quotient of two integers below 2^53 is floored exactly; with
\* max_time = 0.0 the quotient is +-inf or NaN, the product NaN, and
\* `NaN as i64` is 0.
BucketKeyTruncated(unix, max_duration) ==
    IF max_duration = 0 THEN 0
    ELSE IF unix >= 0 THEN (unix \div max_duration) * max_duration
    ELSE -(((-unix) \div max_duration) * max_duration)

\* a key of windows twice as wide
BucketKeyDoubled(unix, max_duration) ==
    IF max_duration = 0 THEN 0
    ELSE (unix \div (2 * max_duration)) * (2 * max_duration)

BucketKey(unix, max_duration) ==
    IF max_duration = 0 THEN 0
    ELSE (unix \div max_duration) * max_duration

\* a waypoint whose absent speed and elevation are zero
WaypointOfZeroed(poi) ==
    [ id          |-> poi.id,
      coordinates |-> poi.coordinates,
      time        |-> Some(poi.time),
      elevation   |-> IF poi.altitude = None THEN Some(0) ELSE poi.altitude,
      speed       |-> IF poi.speed = None THEN Some(0) ELSE poi.speed ]

\* Waypoint::new(poi.coordinates) and the three assignments, tracker.rs:68-72
WaypointOf(poi) ==
    [ id          |-> poi.id,
      coordinates |-> poi.coordinates,
      time        |-> Some(poi.time),
      elevation   |-> poi.altitude,
      speed       |-> poi.speed ]

\* positions.sort_by_key(|p| p.time), tracker.rs:55-56: a stable sort; Ord on
\* OffsetDateTime compares the instants, whatever the offsets.
RECURSIVE InsertUnstable(_, _)
InsertUnstable(sorted, p) ==
    IF sorted = <<>> THEN <<p>>
    ELSE IF p.time.unix <= sorted[1].time.unix THEN <<p>> \o sorted
    ELSE <<sorted[1]>> \o InsertUnstable(Tail(sorted), p)

RECURSIVE InsertByTime(_, _)
InsertByTime(sorted, p) ==
    IF sorted = <<>> THEN <<p>>
    ELSE IF p.time.unix < sorted[1].time.unix THEN <<p>> \o sorted
    ELSE <<sorted[1]>> \o InsertByTime(Tail(sorted), p)

RECURSIVE SortFrom(_, _)
SortFrom(sorted, rest) ==
    IF rest = <<>> THEN sorted
    ELSE SortFrom(InsertByTime(sorted, rest[1]), Tail(rest))

SortByKeyUnsorted(ps) == ps

SortByKey(ps) == SortFrom(<<>>, ps)

\* segs.entry(key).or_insert_with(TrackSegment::new) and the push,
\* tracker.rs:66-74.  segs is the BTreeMap: a function from its keys.
SegsPushReplacing(segs, key, wp) ==
    IF key \in DOMAIN segs
    THEN [segs EXCEPT ![key] = [points |-> <<wp>>]]
    ELSE segs @@ (key :> [points |-> <<wp>>])

SegsPush(segs, key, wp) ==
    IF key \in DOMAIN segs
    THEN [segs EXCEPT ![key] = [points |-> Append(@.points, wp)]]
    ELSE segs @@ (key :> [points |-> <<wp>>])

\* a loop that also opens the segment of the window after each position's
RECURSIVE FillSegsOpeningNext(_, _, _)
FillSegsOpeningNext(segs, ps, max_duration) ==
    IF ps = <<>> THEN segs
    ELSE LET key    == BucketKey(ps[1].time.unix, max_duration)
             pushed == SegsPush(segs, key, WaypointOf(ps[1]))
         IN  FillSegsOpeningNext(pushed @@ ((key + max_duration) :> [points |-> <<>>]),
                                 Tail(ps), max_duration)

\* a loop that pushes the waypoint of every position twice
RECURSIVE FillSegsTwice(_, _, _)
FillSegsTwice(segs, ps, max_duration) ==
    IF ps = <<>> THEN segs
    ELSE LET key == BucketKey(ps[1].time.unix, max_duration)
         IN  FillSegsTwice(SegsPush(SegsPush(segs, key, WaypointOf(ps[1])),
                                    key, WaypointOf(ps[1])),
                           Tail(ps), max_duration)

\* the loop over the sorted positions, tracker.rs:63-75
RECURSIVE FillSegs(_, _, _)
FillSegs(segs, ps, max_duration) ==
    IF ps = <<>> THEN segs
    ELSE FillSegs(SegsPush(segs, BucketKey(ps[1].time.unix, max_duration),
                           WaypointOf(ps[1])),
                  Tail(ps), max_duration)

\* iteration order of a BTreeMap: ascending keys (tracker.rs:77, 154)
RECURSIVE KeysDescending(_)
KeysDescending(S) ==
    IF S = {} THEN <<>>
    ELSE LET m == CHOOSE k \in S : \A o \in S : o <= k
         IN  <<m>> \o KeysDescending(S \ {m})

RECURSIVE KeysAscending(_)
KeysAscending(S) ==
    IF S = {} THEN <<>>
    ELSE LET m == CHOOSE k \in S : \A o \in S : k <= o
         IN  <<m>> \o KeysAscending(S \ {m})

\* geo's SimplifyVwIdx (Visvalingam-Whyatt), called at tracker.rs:79 on the
\* segment's linestring: twice the unsigned area of the triangle a, b, c
Area2(a, b, c) ==
    LET det == (b.x - a.x) * (c.y - a.y) - (c.x - a.x) * (b.y - a.y)
    IN  IF det < 0 THEN -det ELSE det

\* the mark of a removed point in the simulated linked list
Removed == <<0, 0>>

VScore(pts, l, c, r) ==
    [area |-> Area2(pts[l], pts[c], pts[r]), current |-> c, left |-> l, right |-> r]

\* The priority queue pops a triangle of least area; which of several
\* triangles of equal area comes first is left open (every order is
\* explored).  A popped triangle above the tolerance or made stale by an
\* earlier removal is skipped; otherwise its point is removed and the
\* triangles of its two neighbours are recomputed and pushed.  When the
\* queue is empty the points not removed are the result.
RECURSIVE VwLoop(_, _, _, _)
VwPopNoRecompute(adjacent, pq, e, pts, tol) ==
    IF e.area > 2 * tol THEN VwLoop(adjacent, pq, pts, tol)
    ELSE IF adjacent[e.current] # <<e.left, e.right>>
    THEN VwLoop(adjacent, pq, pts, tol)
    ELSE LET ll  == adjacent[e.left][1]
             rr  == adjacent[e.right][2]
             adj == [adjacent EXCEPT ![e.left]    = <<ll, e.right>>,
                                     ![e.right]   = <<e.left, rr>>,
                                     ![e.current] = Removed]
         IN  VwLoop(adj, pq, pts, tol)

VwPop(adjacent, pq, e, pts, tol) ==
    IF e.area > 2 * tol THEN VwLoop(adjacent, pq, pts, tol)
    ELSE IF adjacent[e.current] # <<e.left, e.right>>
    THEN VwLoop(adjacent, pq, pts, tol)
    ELSE LET ll  == adjacent[e.left][1]
             rr  == adjacent[e.right][2]
             adj == [adjacent EXCEPT ![e.left]    = <<ll, e.right>>,
                                     ![e.right]   = <<e.left, rr>>,
                                     ![e.current] = Removed]
             choices == { <<ll, e.left, e.right>>, <<e.left, e.right, rr>> }
             pushed  == { VScore(pts, ch[1], ch[2], ch[3]) :
                            ch \in { c \in choices : c[1] >= 1 /\ c[3] <= Len(pts) } }
         IN  VwLoop(adj, pq \cup pushed, pts, tol)

VwLoop(adjacent, pq, pts, tol) ==
    IF pq = {} THEN { { i \in 1..Len(pts) : adjacent[i] # Removed } }
    ELSE LET least == CHOOSE e \in pq : \A o \in pq : e.area <= o.area
         IN  UNION { VwPop(adjacent, pq \ {e}, e, pts, tol) :
                       e \in { o \in pq : o.area = least.area } }

\* the sets of indices simplify_vw_idx may return for the points pts
SimplifyVwIdx(pts, tol) ==
    LET n == Len(pts)
    IN  IF n < 3 THEN { 1..n }
        ELSE LET adjacent == [i \in 1..n |-> <<i - 1, i + 1>>]
                 pq == { VScore(pts, i - 1, i, i + 1) : i \in 2..(n - 1) }
             IN  VwLoop(adjacent, pq, pts, tol)

\* the kept points, last index first
KeepPointsReversed(tseg, keep) ==
    [points |-> [j \in 1..Cardinality(keep) |->
                    tseg.points[KeysDescending(keep)[j]]]]

\* `for ipoint in keep { ntseg.points.push(tseg.points[ipoint].clone()) }`,
\* tracker.rs:81-85: keep is in ascending index order
KeepPoints(tseg, keep) ==
    [points |-> [j \in 1..Cardinality(keep) |-> tseg.points[KeysAscending(keep)[j]]]]

\* the segments one map entry may yield, tracker.rs:78-90
EmitSegment(tseg, vw_tolerance) ==
    IF IsSome(vw_tolerance)
    THEN { KeepPoints(tseg, keep) :
             keep \in SimplifyVwIdx([j \in 1..Len(tseg.points) |-> tseg.points[j].coordinates],
                                    Unwrap(vw_tolerance)) }
    ELSE { tseg }

\* an emit loop that ends with a segment without points
RECURSIVE EmitSegmentsPadded(_, _, _)
EmitSegmentsPadded(segs, keys, vw_tolerance) ==
    IF keys = <<>> THEN { << [points |-> <<>>] >> }
    ELSE { <<s>> \o rest : s \in EmitSegment(segs[keys[1]], vw_tolerance),
                           rest \in EmitSegmentsPadded(segs, Tail(keys), vw_tolerance) }

\* an emit loop that simplifies the first two segments as one
RECURSIVE EmitSegmentsMerging(_, _, _)
EmitSegmentsMerging(segs, keys, vw_tolerance) ==
    IF keys = <<>> THEN { <<>> }
    ELSE IF Len(keys) = 1 \/ vw_tolerance = None
    THEN { <<s>> \o rest :
             s \in EmitSegment(segs[keys[1]], vw_tolerance),
             rest \in EmitSegmentsMerging(segs, Tail(keys), vw_tolerance) }
    ELSE LET merged == [points |-> segs[keys[1]].points \o segs[keys[2]].points]
         IN  { <<s>> \o rest :
                 s \in EmitSegment(merged, vw_tolerance),
                 rest \in EmitSegmentsMerging(segs, Tail(Tail(keys)), vw_tolerance) }

\* `for (_, tseg) in segs { ... track.segments.push(..) }`, tracker.rs:77-91
RECURSIVE EmitSegments(_, _, _)
EmitSegments(segs, keys, vw_tolerance) ==
    IF keys = <<>> THEN { <<>> }
    ELSE { <<s>> \o rest : s \in EmitSegment(segs[keys[1]], vw_tolerance),
                           rest \in EmitSegments(segs, Tail(keys), vw_tolerance) }

\* "Tracked by `"
TrackedBy == <<84, 114, 97, 99, 107, 101, 100, 32, 98, 121, 32, 96>>

\* format!("Tracked by `{}`", device), tracker.rs:52
Description(device) == TrackedBy \o device \o <<96>>

\* Tracker::new, tracker.rs:25-32
TrackerNew(device, name) ==
    [ device        |-> device,
      name          |-> name,
      source        |-> None,
      segment_confs |-> TrackSegmentOptionsDefault ]

\* Tracker::build, tracker.rs:49-94: the Tracks it may return (one, unless
\* the simplification meets triangles of equal area); it never returns Err
TrackerBuild(t, ps) ==
    LET sorted == SortByKey(ps)
        segs   == FillSegs(<<>>, sorted, t.segment_confs.max_duration)
    IN  { [ name        |-> Some(t.name),
            description |-> Some(Description(t.device)),
            source      |-> t.source,
            segments    |-> segments ] :
          segments \in EmitSegments(segs, KeysAscending(DOMAIN segs),
                                    t.segment_confs.vw_tolerance) }

\* a source() that keeps the source the tracker already has
TrackerSourceOnce(t, source) ==
    IF t.source = None THEN [t EXCEPT !.source = Some(source)] ELSE t

\* Tracker::source, tracker.rs:42-46
TrackerSource(t, source) == [t EXCEPT !.source = Some(source)]

\* Tracker::configure_segments, tracker.rs:35-39
TrackerConfigureSegments(t, conf) == [t EXCEPT !.segment_confs = conf]

\* -------------------------------------------------------------- position.rs
\* RawPosition::basic, position.rs:19-27
RawPositionBasic(id, coordinates, time) ==
    [ id          |-> id,
      coordinates |-> coordinates,
      time        |-> time,
      speed       |-> None,
      precision   |-> None,
      altitude    |-> None ]

\* DevicePosition::basic, position.rs:42-49
DevicePositionBasic(id, device_id, coordinates, time) ==
    [ device_id    |-> device_id,
      pos          |-> RawPositionBasic(id, coordinates, time),
      route_name   |-> None,
      tracker      |-> None,
      format_fails |-> FALSE ]

\* Result<T, String>
Ok(v) == <<"Ok", v>>

Err(e) == <<"Err", e>>

IsOk(r) == r # <<>> /\ r[1] = "Ok"

IsErr(r) == r # <<>> /\ r[1] = "Err"

\* ----------------------------------------------- SourceToTracks, tracker.rs
\* the civil date of a day number (days since 1970-01-01), as the time crate
\* derives year, month and day of a date
CivilFromDays(days) ==
    LET z   == days + 719468
        era == z \div 146097
        doe == z - era * 146097
        yoe == (doe - doe \div 1460 + doe \div 36524 - doe \div 146096) \div 365
        doy == doe - (365 * yoe + yoe \div 4 - yoe \div 100)
        mp  == (5 * doy + 2) \div 153
        d   == doy - (153 * mp + 2) \div 5 + 1
        m   == IF mp < 10 THEN mp + 3 ELSE mp - 9
        y   == yoe + era * 400 + (IF m <= 2 THEN 1 ELSE 0)
    IN  [year |-> y, month |-> m, day |-> d]

\* a number as `width` decimal digits, zero padded
RECURSIVE Digits(_, _)
Digits(n, width) ==
    IF width = 0 THEN <<>>
    ELSE Append(Digits(n \div 10, width - 1), 48 + (n % 10))

\* pos.pos.time.format("[year]-[month]-[day]"), tracker.rs:132, 140-144: the
\* date the OffsetDateTime shows, that is the date in its own offset.  For
\* the years 0..9999 the year has four digits and no sign.
FormatDay(time) ==
    LET date == CivilFromDays((time.unix + time.offset) \div 86400)
    IN  Ok(Digits(date.year, 4) \o <<45>> \o Digits(date.month, 2) \o <<45>>
           \o Digits(date.day, 2))

\* e.to_string() of time's error::Format
FormatError == "format error"

\* pos.pos.time.format(route_day_format).map_err(|e| e.to_string()),
\* tracker.rs:140-144: a Result, by the signature of time's format; which
\* of the two it is does not follow from the timestamp
FormatOf(pos) ==
    IF pos.format_fails THEN Err(FormatError) ELSE FormatDay(pos.pos.time)

\* a route that is always the date, label or not
RouteOfDate(pos) == FormatOf(pos)

\* the match on pos.route_name, tracker.rs:137-147
RouteOf(pos) ==
    IF IsSome(pos.route_name) THEN Ok(Unwrap(pos.route_name))
    ELSE FormatOf(pos)

\* a push that ignores the key once a group exists
DevicesPushAnyKey(devices, key, pos) ==
    IF DOMAIN devices # {}
    THEN LET first == CHOOSE k \in DOMAIN devices : TRUE
         IN  [devices EXCEPT ![first] = Append(@, pos)]
    ELSE (key :> <<pos>>)

\* an insert that replaces the group instead of pushing to it
DevicesPushReplacing(devices, key, pos) ==
    (key :> <<pos>>) @@ devices

\* devices.entry(key).or_insert(vec![]) and the push, tracker.rs:148-151
DevicesPush(devices, key, pos) ==
    IF key \in DOMAIN devices
    THEN [devices EXCEPT ![key] = Append(@, pos)]
    ELSE devices @@ (key :> <<pos>>)

\* a grouping loop that takes a batch without positions for an error
RECURSIVE GroupPositionsNonEmpty(_, _)
GroupPositionsNonEmpty(devices, ps) ==
    IF ps = <<>>
    THEN IF DOMAIN devices = {} THEN Err("no positions") ELSE Ok(devices)
    ELSE LET route == RouteOf(ps[1])
         IN  IF IsErr(route) THEN route
             ELSE GroupPositionsNonEmpty(
                      DevicesPush(devices, <<ps[1].device_id, route[2]>>, ps[1]),
                      Tail(ps))

\* a grouping loop that skips the position whose date cannot be formatted
RECURSIVE GroupPositionsSkipping(_, _)
GroupPositionsSkipping(devices, ps) ==
    IF ps = <<>> THEN Ok(devices)
    ELSE LET route == RouteOf(ps[1])
         IN  IF IsErr(route) THEN GroupPositionsSkipping(devices, Tail(ps))
             ELSE GroupPositionsSkipping(
                      DevicesPush(devices, <<ps[1].device_id, route[2]>>, ps[1]),
                      Tail(ps))

\* the grouping loop, tracker.rs:136-152: Ok(devices), or the first Err of
\* the date formatting
RECURSIVE GroupPositions(_, _)
GroupPositions(devices, ps) ==
    IF ps = <<>> THEN Ok(devices)
    ELSE LET route == RouteOf(ps[1])
         IN  IF IsErr(route) THEN route
             ELSE GroupPositions(
                      DevicesPush(devices, <<ps[1].device_id, route[2]>>, ps[1]),
                      Tail(ps))

\* Ord on the key (String, String): lexicographic on the pair
KeyLess(a, b) ==
    \/ StrLess(a[1], b[1])
    \/ a[1] = b[1] /\ StrLess(a[2], b[2])

\* iteration order of the BTreeMap `devices`, tracker.rs:154
RECURSIVE GroupKeysDescending(_)
GroupKeysDescending(S) ==
    IF S = {} THEN <<>>
    ELSE LET m == CHOOSE k \in S : \A o \in S : o = k \/ KeyLess(o, k)
         IN  <<m>> \o GroupKeysDescending(S \ {m})

RECURSIVE GroupKeysAscending(_)
GroupKeysAscending(S) ==
    IF S = {} THEN <<>>
    ELSE LET m == CHOOSE k \in S : \A o \in S : o = k \/ KeyLess(k, o)
         IN  <<m>> \o GroupKeysAscending(S \ {m})

\* `if let Some(trk) = &dev_pos[0].tracker { tracker.source(..) }`,
\* tracker.rs:155-161
GroupTracker(key, dev_pos, confs) ==
    LET t0 == TrackerNew(key[1], key[2])
        t1 == IF IsSome(dev_pos[1].tracker)
              THEN TrackerSource(t0, Unwrap(dev_pos[1].tracker))
              ELSE t0
    IN  TrackerConfigureSegments(t1, confs)

\* one group's Track, tracker.rs:163-165
GroupTracks(key, dev_pos, confs) ==
    TrackerBuild(GroupTracker(key, dev_pos, confs),
                 [j \in 1..Len(dev_pos) |-> dev_pos[j].pos])

\* the loop over the groups, tracker.rs:154-166
RECURSIVE BuildTracks(_, _, _)
BuildTracks(devices, keys, confs) ==
    IF keys = <<>> THEN { <<>> }
    ELSE { <<t>> \o rest : t \in GroupTracks(keys[1], devices[keys[1]], confs),
                           rest \in BuildTracks(devices, Tail(keys), confs) }

\* a build that returns no tracks when the fetch failed
SourceToTracksSwallowing(fetch, confs) ==
    IF IsErr(fetch) THEN { Ok(<<>>) }
    ELSE LET grouped == GroupPositions(<<>>, fetch[2])
         IN  IF IsErr(grouped) THEN { grouped }
             ELSE { Ok(ts) : ts \in BuildTracks(grouped[2],
                                        GroupKeysAscending(DOMAIN grouped[2]),
                                        confs) }

\* SourceToTracks::build after the fetch, tracker.rs:134-168: the results it
\* may return for what fetch returned
SourceToTracksResults(fetch, confs) ==
    IF IsErr(fetch) THEN { fetch }
    ELSE LET grouped == GroupPositions(<<>>, fetch[2])
         IN  IF IsErr(grouped) THEN { grouped }
             ELSE { Ok(ts) : ts \in BuildTracks(grouped[2],
                                        GroupKeysAscending(DOMAIN grouped[2]),
                                        confs) }

\* ------------------------------------------------- sources/mod.rs, strings
\* "device", "time", "route", "coordinates", "speed", "elevation"
DeviceName == <<100, 101, 118, 105, 99, 101>>

TimeName == <<116, 105, 109, 101>>

RouteName == <<114, 111, 117, 116, 101>>

CoordinatesName == <<99, 111, 111, 114, 100, 105, 110, 97, 116, 101, 115>>

SpeedName == <<115, 112, 101, 101, 100>>

ElevationName == <<101, 108, 101, 118, 97, 116, 105, 111, 110>>

\* impl Default for FieldsConfiguration, mod.rs:34-46
FieldsConfigurationDefault ==
    [ device_id        |-> DeviceName,
      time             |-> TimeName,
      route            |-> RouteName,
      coordinates      |-> CoordinatesName,
      speed            |-> SpeedName,
      elevation        |-> ElevationName,
      flip_coordinates |-> FALSE ]

\* char::is_whitespace on the bytes of ASCII
IsSpace(b) == b \in {9, 10, 11, 12, 13, 32}

RECURSIVE TrimStart(_)
TrimStart(s) ==
    IF s # <<>> /\ IsSpace(Head(s)) THEN TrimStart(Tail(s)) ELSE s

RECURSIVE TrimEnd(_)
TrimEnd(s) ==
    IF s # <<>> /\ IsSpace(s[Len(s)]) THEN TrimEnd(SubSeq(s, 1, Len(s) - 1))
    ELSE s

\* str::trim
Trim(s) == TrimEnd(TrimStart(s))

\* str::to_lowercase on the bytes of ASCII
RECURSIVE ToLowercase(_)
ToLowercase(s) ==
    IF s = <<>> THEN <<>>
    ELSE <<IF Head(s) \in 65..90 THEN Head(s) + 32 ELSE Head(s)>>
           \o ToLowercase(Tail(s))

\* str::contains of a one-byte pattern
Contains(s, b) == \E i \in 1..Len(s) : s[i] = b

\* str::split by a one-byte pattern: the pieces between the separators,
\* empty pieces included ("" splits into the one piece "")
RECURSIVE Split(_, _)
Split(s, sep) ==
    IF Contains(s, sep)
    THEN LET i == CHOOSE i \in 1..Len(s) :
                     s[i] = sep /\ \A j \in 1..(i - 1) : s[j] # sep
         IN  <<SubSeq(s, 1, i - 1)>> \o Split(SubSeq(s, i + 1, Len(s)), sep)
    ELSE <<s>>

IsDigit(b) == b \in 48..57

AllDigits(s) == \A i \in 1..Len(s) : IsDigit(s[i])

\* the number a string of decimal digits denotes
RECURSIVE Decimal(_)
Decimal(s) ==
    IF s = <<>> THEN 0
    ELSE Decimal(SubSeq(s, 1, Len(s) - 1)) * 10 + (s[Len(s)] - 48)

\* e.to_string() of ParseFloatError
ParseFloatError == "invalid float literal"

\* str::parse::<f64> on texts of signs, digits and other bytes that are no
\* part of a number: an optional sign and at least one digit is the integer
\* it denotes, everything else an error (fractions, exponents, "inf" and
\* "nan" are not among the texts of the model)
ParseF64(s) ==
    LET digits == IF s # <<>> /\ s[1] \in {43, 45} THEN Tail(s) ELSE s
    IN  IF digits # <<>> /\ AllDigits(digits)
        THEN Ok(IF s[1] = 45 THEN 0 - Decimal(digits) ELSE Decimal(digits))
        ELSE Err(ParseFloatError)

\* the day number (days since 1970-01-01) of a civil date, the inverse of
\* CivilFromDays
DaysFromCivil(year, month, day) ==
    LET y   == IF month <= 2 THEN year - 1 ELSE year
        era == y \div 400
        yoe == y - era * 400
        mp  == IF month > 2 THEN month - 3 ELSE month + 9
        doy == (153 * mp + 2) \div 5 + day - 1
        doe == yoe * 365 + yoe \div 4 - yoe \div 100 + doy
    IN  era * 146097 + doe - 719468

IsLeap(year) == year % 4 = 0 /\ (year % 100 # 0 \/ year % 400 = 0)

DaysInMonth(year, month) ==
    IF month = 2 THEN (IF IsLeap(year) THEN 29 ELSE 28)
    ELSE IF month \in {4, 6, 9, 11} THEN 30 ELSE 31

\* e.to_string() of time's error::Parse
ParseTimeError == "parse error"

\* OffsetDateTime::parse(d, &well_known::Rfc3339), csv_file.rs:177, on
\* texts without a fraction of a second: "YYYY-MM-DDTHH:MM:SS" followed by
\* "Z" or by "+HH:MM" / "-HH:MM"; the instant is the civil time less the
\* offset
ParseRfc3339(s) ==
    LET num(i, w) == Decimal(SubSeq(s, i, i + w - 1))
        digitsAt(i, w) == AllDigits(SubSeq(s, i, i + w - 1))
        shaped ==
            /\ Len(s) \in {20, 25}
            /\ digitsAt(1, 4) /\ s[5] = 45 /\ digitsAt(6, 2) /\ s[8] = 45
            /\ digitsAt(9, 2) /\ s[11] = 84
            /\ digitsAt(12, 2) /\ s[14] = 58 /\ digitsAt(15, 2) /\ s[17] = 58
            /\ digitsAt(18, 2)
            /\ IF Len(s) = 20 THEN s[20] = 90
               ELSE /\ s[20] \in {43, 45}
                    /\ digitsAt(21, 2) /\ s[23] = 58 /\ digitsAt(24, 2)
        inRange ==
            /\ num(6, 2) \in 1..12
            /\ num(9, 2) \in 1..DaysInMonth(num(1, 4), num(6, 2))
            /\ num(12, 2) <= 23 /\ num(15, 2) <= 59 /\ num(18, 2) <= 59
            /\ Len(s) = 25 => (num(21, 2) <= 23 /\ num(24, 2) <= 59)
        offset ==
            IF Len(s) = 20 THEN 0
            ELSE (IF s[20] = 45 THEN 0 - 1 ELSE 1)
                   * (num(21, 2) * 3600 + num(24, 2) * 60)
        civil ==
            DaysFromCivil(num(1, 4), num(6, 2), num(9, 2)) * 86400
              + num(12, 2) * 3600 + num(15, 2) * 60 + num(18, 2)
    IN  IF shaped /\ inRange
        THEN Ok([unix |-> civil - offset, offset |-> offset])
        ELSE Err(ParseTimeError)

\* ------------------------------------------------- sources/csv_file.rs
\* header.iter().position(|h| h.to_lowercase() == name), counted from 1
Position(header, name) ==
    LET found == { i \in 1..Len(header) : ToLowercase(header[i]) = name }
    IN  IF found = {} THEN None
        ELSE Some(CHOOSE i \in found : \A j \in found : i <= j)

\* StringRecord::trim: every field trimmed
RECURSIVE TrimRecord(_)
TrimRecord(rec) ==
    IF rec = <<>> THEN <<>>
    ELSE <<Trim(Head(rec))>> \o TrimRecord(Tail(rec))

\* parse_header, csv_file.rs:90-130
ParseHeader(fields, header) ==
    LET trimmed     == TrimRecord(header)
        device      == Position(trimmed, fields.device_id)
        coordinates == Position(trimmed, fields.coordinates)
        time        == Position(trimmed, fields.time)
    IN  IF device = None THEN Err("Device header not found")
        ELSE IF coordinates = None THEN Err("Coordinates header not found")
        ELSE IF time = None THEN Err("Time header not found")
        ELSE Ok([ device      |-> Unwrap(device),
                  coordinates |-> Unwrap(coordinates),
                  time        |-> Unwrap(time),
                  route       |-> Position(trimmed, fields.route),
                  speed       |-> Position(trimmed, fields.speed),
                  elevation   |-> Position(trimmed, fields.elevation) ])

\* row.get(i), counted from 1
Get(row, i) == IF i <= Len(row) THEN Some(row[i]) ELSE None

\* the separator of the coordinates, csv_file.rs:146-150: "," or ";" or " "
SeparatorOf(raw_coordinates) ==
    IF Contains(raw_coordinates, 44) THEN 44
    ELSE IF Contains(raw_coordinates, 59) THEN 59
    ELSE 32

RECURSIVE TrimAll(_)
TrimAll(parts) ==
    IF parts = <<>> THEN <<>>
    ELSE <<Trim(Head(parts))>> \o TrimAll(Tail(parts))

\* the optional fields of a row, csv_file.rs:183-208
RowRoute(header, row) ==
    IF header.route = None THEN None
    ELSE LET d == Get(row, Unwrap(header.route))
         IN  IF IsSome(d) /\ Trim(Unwrap(d)) # <<>> THEN Some(Trim(Unwrap(d)))
             ELSE None

RowNumber(index, row) ==
    IF index = None THEN None
    ELSE LET d == Get(row, Unwrap(index))
         IN  IF IsSome(d) /\ IsOk(ParseF64(Unwrap(d)))
             THEN Some(ParseF64(Unwrap(d))[2])
             ELSE None

\* parse_row, csv_file.rs:132-211; id is the number of the row in the file
ParseRow(header, fields, rec, id) ==
    LET row == TrimRecord(rec)
    IN  IF Get(row, header.device) = None THEN Err("Device field not found")
        ELSE IF Get(row, header.coordinates) = None
             THEN Err("Coordinates field not found")
        ELSE
        LET device_id       == row[header.device]
            raw_coordinates == row[header.coordinates]
            scoordinates    ==
                TrimAll(Split(raw_coordinates, SeparatorOf(raw_coordinates)))
            ilat == IF fields.flip_coordinates THEN 1 ELSE 2
            ilng == IF fields.flip_coordinates THEN 2 ELSE 1
        IN  IF Len(scoordinates) # 2 THEN Ok(None)
            ELSE
            LET lat == ParseF64(scoordinates[ilat])
                lng == ParseF64(scoordinates[ilng])
            IN  IF IsErr(lat) THEN Err("Invalid latitude format")
                ELSE IF IsErr(lng) THEN Err("Invalid longitude format")
                ELSE IF Get(row, header.time) = None
                     THEN Err("Time field not found")
                ELSE
                LET time == ParseRfc3339(row[header.time])
                    dpos == DevicePositionBasic(id, device_id,
                                [x |-> lng[2], y |-> lat[2]], time[2])
                IN  IF IsErr(time) THEN Err("Failed on parse the time")
                    ELSE Ok(Some(
                           [dpos EXCEPT
                              !.route_name   = RowRoute(header, row),
                              !.pos.speed    = RowNumber(header.speed, row),
                              !.pos.altitude = RowNumber(header.elevation, row)]))

\* format!("Error with row {:?}: {}", rec, e), csv_file.rs:63-66: the error
\* of parse_row, marked as the error of a row
RowError(e) ==
    CASE e = "Device field not found" -> "Error with row: Device field not found"
      [] e = "Coordinates field not found" ->
               "Error with row: Coordinates field not found"
      [] e = "Invalid latitude format" -> "Error with row: Invalid latitude format"
      [] e = "Invalid longitude format" ->
               "Error with row: Invalid longitude format"
      [] e = "Time field not found" -> "Error with row: Time field not found"
      [] e = "Failed on parse the time" ->
               "Error with row: Failed on parse the time"

\* a window that leaves its end out
InWindowBeforeEnd(start, end, time) ==
    start.unix <= time.unix /\ time.unix < end.unix

\* start <= dpos.pos.time && dpos.pos.time <= end, csv_file.rs:69: the Ord
\* of OffsetDateTime compares the instants
InWindow(start, end, time) ==
    start.unix <= time.unix /\ time.unix <= end.unix

\* the loop over the records, csv_file.rs:55-73: i is the next record, pos
\* the positions pushed so far
RECURSIVE FetchRecords(_, _, _, _, _, _, _)
FetchRecords(recs, i, header_idx, fields, start, end, pos) ==
    IF i > Len(recs) THEN Ok(pos)
    ELSE IF IsErr(recs[i]) THEN Err("Failed on read some row")
    ELSE IF Len(recs[i][2]) < 3
         THEN FetchRecords(recs, i + 1, header_idx, fields, start, end, pos)
    ELSE
    LET row_pos == ParseRow(header_idx, fields, recs[i][2], i)
    IN  IF IsErr(row_pos) THEN Err(RowError(row_pos[2]))
        ELSE FetchRecords(recs, i + 1, header_idx, fields, start, end,
               IF IsSome(row_pos[2]) /\ InWindow(start, end, Unwrap(row_pos[2]).pos.time)
               THEN Append(pos, Unwrap(row_pos[2]))
               ELSE pos)

\* CsvSource::fetch, csv_file.rs:41-77, on a reader whose headers() gives
\* rdr.headers and whose records() gives rdr.records, each a Result
CsvFetch(rdr, fields, start, end) ==
    IF IsErr(rdr.headers) THEN Err("Failed on read the header")
    ELSE LET header_idx == ParseHeader(fields, rdr.headers[2])
         IN  IF IsErr(header_idx) THEN header_idx
             ELSE FetchRecords(rdr.records, 1, header_idx[2], fields,
                               start, end, <<>>)


\* ------------------------------------------------------ sources/mongo.rs
\* Bson values; a Double is a number of tenths
BsonString(s) == [type |-> "String", value |-> s]

BsonInt32(n) == [type |-> "Int32", value |-> n]

BsonInt64(n) == [type |-> "Int64", value |-> n]

BsonDouble(tenths) == [type |-> "Double", value |-> tenths]

BsonArray(a) == [type |-> "Array", value |-> a]

BsonDateTime(unix) == [type |-> "DateTime", value |-> unix]

BsonObjectId(n) == [type |-> "ObjectId", value |-> n]

BsonBoolean(b) == [type |-> "Boolean", value |-> b]

BsonNull == [type |-> "Null"]

\* "_id"
IdName == <<95, 105, 100>>

\* Document::get: the value of the first entry of the document with the key
DocGet(doc, key) ==
    LET found == { i \in 1..Len(doc) : doc[i][1] = key }
    IN  IF found = {} THEN None
        ELSE Some(doc[CHOOSE i \in found : \A j \in found : i <= j][2])

\* the decimal digits of a natural number
RECURSIVE NatToString(_)
NatToString(n) ==
    IF n < 10 THEN <<48 + n>>
    ELSE Append(NatToString(n \div 10), 48 + (n % 10))

\* i32::to_string, i64::to_string
IntToString(n) ==
    IF n < 0 THEN <<45>> \o NatToString(0 - n) ELSE NatToString(n)

\* f64::to_string of a number of tenths: the whole part, and the fraction
\* when it is not zero ("251", "2.5")
DoubleToString(tenths) ==
    LET abs == IF tenths < 0 THEN 0 - tenths ELSE tenths
    IN  (IF tenths < 0 THEN <<45>> ELSE <<>>)
          \o NatToString(abs \div 10)
          \o (IF abs % 10 = 0 THEN <<>> ELSE <<46, 48 + (abs % 10)>>)

\* the match on the device field, mongo.rs:72-79
DeviceIdOf(value) ==
    IF value = None THEN Err("Device field not found")
    ELSE LET di == Unwrap(value)
         IN  CASE di.type = "String" -> Ok(di.value)
               [] di.type = "Int32"  -> Ok(IntToString(di.value))
               [] di.type = "Int64"  -> Ok(IntToString(di.value))
               [] di.type = "Double" -> Ok(DoubleToString(di.value))
               [] OTHER -> Err("Device field type not supported")

\* a route label that is the first string of an array only
RouteNameOfFirst(value) ==
    IF value # None /\ Unwrap(value).type = "Array" /\ Len(Unwrap(value).value) > 0
         /\ Unwrap(value).value[1].type = "String"
    THEN Some(Unwrap(value).value[1].value)
    ELSE None

\* the match on the route field, mongo.rs:116-131
RouteNameOf(value) ==
    IF value = None THEN None
    ELSE LET ro == Unwrap(value)
         IN  CASE ro.type = "String" -> Some(ro.value)
               [] ro.type = "Int32"  -> Some(IntToString(ro.value))
               [] ro.type = "Array"  ->
                    IF Len(ro.value) > 0
                    THEN CASE ro.value[1].type = "String" -> Some(ro.value[1].value)
                           [] ro.value[1].type = "Int32" ->
                                Some(IntToString(ro.value[1].value))
                           [] OTHER -> None
                    ELSE None
               [] OTHER -> None

\* the match on the speed and on the elevation field, mongo.rs:133-143: a
\* number of tenths
NumberOf(value) ==
    IF value = None THEN None
    ELSE LET sp == Unwrap(value)
         IN  CASE sp.type = "Int32"  -> Some(10 * sp.value)
               [] sp.type = "Double" -> Some(sp.value)
               [] OTHER -> None

\* the match on the time field, mongo.rs:104-112
TimeOf(value) ==
    IF value = None THEN Err("Time field not found")
    ELSE LET tm == Unwrap(value)
         IN  CASE tm.type = "String" ->
                    IF IsOk(ParseRfc3339(tm.value)) THEN ParseRfc3339(tm.value)
                    ELSE Err("Failed on parse the time")
               [] tm.type = "DateTime" -> Ok([unix |-> tm.value, offset |-> 0])
               [] OTHER -> Err("Time field type not supported")

\* parse_doc, mongo.rs:71-146; id is the number of the document in the
\* collection; the coordinates of the Point are numbers of tenths
ParseDoc(fields, doc, id) ==
    LET device_id   == DeviceIdOf(DocGet(doc, fields.device_id))
        coordinates == DocGet(doc, fields.coordinates)
        ilat        == IF fields.flip_coordinates THEN 1 ELSE 2
        ilng        == IF fields.flip_coordinates THEN 2 ELSE 1
        time        == TimeOf(DocGet(doc, fields.time))
    IN  IF IsErr(device_id) THEN device_id
        ELSE IF coordinates = None \/ Unwrap(coordinates).type # "Array"
             THEN Err("Failed on access the coordinates")
        ELSE IF Len(Unwrap(coordinates).value) # 2
             THEN Err("Coordinates size invalid")
        ELSE IF Unwrap(coordinates).value[ilat].type # "Double"
             THEN Err("Invalid type of latitude")
        ELSE IF Unwrap(coordinates).value[ilng].type # "Double"
             THEN Err("Invalid type of longitude")
        ELSE IF IsErr(time) THEN time
        ELSE Ok([ DevicePositionBasic(id, device_id[2],
                      [ x |-> Unwrap(coordinates).value[ilng].value,
                        y |-> Unwrap(coordinates).value[ilat].value ],
                      time[2])
                  EXCEPT !.route_name   = RouteNameOf(DocGet(doc, fields.route)),
                         !.pos.speed    = NumberOf(DocGet(doc, fields.speed)),
                         !.pos.altitude = NumberOf(DocGet(doc, fields.elevation)) ])

\* the filter of the find, mongo.rs:38-46: the time is a date from start to
\* end ($gte and $lte of a date match dates only) and the coordinates are
\* an array of two
Matches(fields, doc, start, end) ==
    LET time        == DocGet(doc, fields.time)
        coordinates == DocGet(doc, fields.coordinates)
    IN  /\ time # None
        /\ Unwrap(time).type = "DateTime"
        /\ start.unix <= Unwrap(time).value
        /\ Unwrap(time).value <= end.unix
        /\ coordinates # None
        /\ Unwrap(coordinates).type = "Array"
        /\ Len(Unwrap(coordinates).value) = 2

\* format!("Error with doc {0}: {1}", id, e), mongo.rs:59-62
DocError(e) ==
    CASE e = "Device field not found" -> "Error with doc: Device field not found"
      [] e = "Device field type not supported" ->
               "Error with doc: Device field type not supported"
      [] e = "Failed on access the coordinates" ->
               "Error with doc: Failed on access the coordinates"
      [] e = "Coordinates size invalid" -> "Error with doc: Coordinates size invalid"
      [] e = "Invalid type of latitude" -> "Error with doc: Invalid type of latitude"
      [] e = "Invalid type of longitude" ->
               "Error with doc: Invalid type of longitude"
      [] e = "Failed on parse the time" -> "Error with doc: Failed on parse the time"
      [] e = "Time field type not supported" ->
               "Error with doc: Time field type not supported"
      [] e = "Time field not found" -> "Error with doc: Time field not found"

\* the loop over the cursor, mongo.rs:52-66: i is the next document of the
\* collection, pos the positions pushed so far
RECURSIVE FetchDocs(_, _, _, _, _, _)
FetchDocs(docs, i, fields, start, end, pos) ==
    IF i > Len(docs) THEN Ok(pos)
    ELSE IF ~Matches(fields, docs[i], start, end)
         THEN FetchDocs(docs, i + 1, fields, start, end, pos)
    ELSE IF DocGet(docs[i], IdName) = None
              \/ Unwrap(DocGet(docs[i], IdName)).type # "ObjectId"
         THEN Err("Failed on access the doc id")
    ELSE LET dpos == ParseDoc(fields, docs[i], i)
         IN  IF IsErr(dpos) THEN Err(DocError(dpos[2]))
             ELSE FetchDocs(docs, i + 1, fields, start, end, Append(pos, dpos[2]))

\* MongoDbSource::fetch, mongo.rs:30-68, on a collection whose find fails
\* (collection.fails) or gives the documents that match, in the order of
\* the collection
MongoFetch(collection, fields, start, end) ==
    IF collection.fails THEN Err("Failed on fetch the docs")
    ELSE FetchDocs(collection.docs, 1, fields, start, end, <<>>)

\* ---------------------------------------------------------------- main.rs
\* max_duration is a u16, tracker.rs:102
MaxU16 == 65535

\* A YAML mapping is a function from the keys it has to their values.
\* Deserializing a struct that is #[serde(default)] (mod.rs:19-20,
\* tracker.rs:98-99): a field with a key has the value of the key, a field
\* without one the value of Default
FromMapping(mapping, default) ==
    [ n \in DOMAIN default |->
        IF n \in DOMAIN mapping THEN mapping[n] ELSE default[n] ]

\* serde_yaml::from_str::<FieldsConfiguration>, mod.rs:19-32
FieldsFromYaml(mapping) == Ok(FromMapping(mapping, FieldsConfigurationDefault))

\* serde_yaml::from_str::<TrackSegmentOptions>, tracker.rs:98-105: a
\* max_duration that is no u16 is an error, a tolerance is Some of its number
SegmentsFromYaml(mapping) ==
    IF "max_duration" \in DOMAIN mapping /\ mapping["max_duration"] \notin 0..MaxU16
    THEN Err("invalid value")
    ELSE Ok([ max_duration |->
                IF "max_duration" \in DOMAIN mapping THEN mapping["max_duration"]
                ELSE TrackSegmentOptionsDefault.max_duration,
              vw_tolerance |->
                IF "vw_tolerance" \in DOMAIN mapping THEN Some(mapping["vw_tolerance"])
                ELSE TrackSegmentOptionsDefault.vw_tolerance ])

\* serde_yaml::from_str::<Configs>, main.rs:150-154: the struct is not
\* #[serde(default)], so both of its keys must be there; a key without a
\* value is an empty mapping (main.rs:159)
ConfigsFromYaml(yaml) ==
    IF yaml.fields = None THEN Err("missing field fields")
    ELSE IF yaml.segments = None THEN Err("missing field segments")
    ELSE IF IsErr(SegmentsFromYaml(Unwrap(yaml.segments)))
         THEN SegmentsFromYaml(Unwrap(yaml.segments))
    ELSE Ok([ fields   |-> FieldsFromYaml(Unwrap(yaml.fields))[2],
              segments |-> SegmentsFromYaml(Unwrap(yaml.segments))[2] ])

\* the loop over the options, main.rs:130-136: the first file that
\* fs::read_to_string reads
RECURSIVE FirstRead(_)
FirstRead(reads) ==
    IF reads = <<>> THEN None
    ELSE IF IsSome(Head(reads)) THEN Head(reads)
    ELSE FirstRead(Tail(reads))

\* load_configs, main.rs:115-148, on what fs::read_to_string gives for the
\* options in their order: None for a file that is not read, or its YAML
LoadConfigs(reads) ==
    LET yaml == FirstRead(reads)
    IN  IF IsSome(yaml) /\ IsOk(ConfigsFromYaml(Unwrap(yaml)))
        THEN [ fields   |-> ConfigsFromYaml(Unwrap(yaml))[2].fields,
               segments |-> ConfigsFromYaml(Unwrap(yaml))[2].segments ]
        ELSE [ fields   |-> FieldsConfigurationDefault,
               segments |-> TrackSegmentOptionsDefault ]

\* ------------------------------------------------------------------ inputs
\* the coordinates of the i-th position of a list: all on one spot (as in
\* tests.rs:319-324), or a path that bends at every third point
Shapes == { "same", "bend" }

\* the polyline and the tolerance of the test simplify_track, tests.rs:360-376
SimplifyTrackLocs ==
    << [x |-> 5, y |-> 2], [x |-> 3, y |-> 8], [x |-> 6, y |-> 20],
       [x |-> 7, y |-> 25], [x |-> 10, y |-> 10] >>

SimplifyTrackTolerance == 30

ShapePoint(shape, i) ==
    IF shape = "same" THEN [x |-> 0, y |-> 0]
    ELSE IF shape = "bend" THEN [x |-> i, y |-> IF i % 3 = 0 THEN 2 ELSE 0]
    ELSE SimplifyTrackLocs[i]

Times == (0 - MaxTime)..MaxTime

\* the times of a list of positions: up to MaxLen of any times, or one more
\* of the times 0 and MaxTime only (enough for a segment of three points
\* beside another segment)
TimeLists ==
    UNION { [1..n -> Times] : n \in 0..MaxLen }
      \cup [1..(MaxLen + 1) -> {0, MaxTime}]

\* the references handed to Tracker::build: UTC times, as in tests.rs
RawPositions(times, shape) ==
    [i \in 1..Len(times) |->
        RawPositionBasic(i, ShapePoint(shape, i), [unix |-> times[i], offset |-> 0])]

\* What the positions of a list know beside place and time: nothing
\* ("basic"), speed 7 and altitude 50 as in the test speed_and_elevation_info
\* (tests.rs:276-277), or ("partial") a speed of 0 and no altitude at the
\* odd places of the list, an altitude and no speed at the even ones.
Infos == { "basic", "speed_and_elevation", "partial" }

SpeedOf(info, i) ==
    IF info = "speed_and_elevation" THEN Some(7)
    ELSE IF info = "partial" /\ i % 2 = 1 THEN Some(0)
    ELSE None

AltitudeOf(info, i) ==
    IF info = "speed_and_elevation" THEN Some(50)
    ELSE IF info = "partial" /\ i % 2 = 0 THEN Some(i)
    ELSE None

\* p1.altitude = ..; p1.speed = .. on RawPosition::basic, tests.rs:272-277
RawPositionsWith(times, shape, info) ==
    [i \in 1..Len(times) |->
        [ RawPositions(times, shape)[i] EXCEPT !.speed    = SpeedOf(info, i),
                                                !.altitude = AltitudeOf(info, i) ]]

\* the lists of positions handed to Tracker::build, as times, shape and
\* info: the lists above in either shape, the list of the test
\* simplify_track (all its positions of one second, tests.rs:368-371), and
\* lists of MaxLen positions that know their speed or altitude
BuildInputs ==
    (TimeLists \X Shapes \X {"basic"})
      \cup { << [i \in 1..Len(SimplifyTrackLocs) |-> 0], "simplify_track", "basic" >> }
      \cup ([1..MaxLen -> {0, MaxTime}] \X Shapes \X (Infos \ {"basic"}))

\* max_duration is a u16, vw_tolerance an Option<f64>, tracker.rs:100-105
SegmentConfs ==
    [ max_duration : (0..MaxDur) \cup {DefaultMaxDuration},
      vw_tolerance : {None, Some(0), Some(1), Some(SimplifyTrackTolerance)} ]

\* " ", "12"
BlankRoute == <<32>>

Route12 == <<49, 50>>

\* What a fetched position may look like, but for its id and coordinates:
\* device, hour of the instant, UTC offset, route label, tracker tag.
\* Unlabelled positions of the first device are at the epoch or MaxHour
\* hours before it (the day before), these with either offset; one labelled
\* position is of the day before too, all others are at the epoch.  For one
\* unlabelled position the formatting of the date fails.
Fetchable ==
    LET at(h, o) == [unix |-> h * 3600, offset |-> o]
        p(device_id, time, route_name, trk) ==
            [device_id |-> device_id, time |-> time, route_name |-> route_name,
             tracker |-> trk, format_fails |-> FALSE]
    IN  { p(Dev1, at(0 - MaxHour, o), None, None) : o \in {0, 3600} }
        \cup
        { p(Dev1, at(0, 0), r, None) : r \in {None, Some(BlankRoute), Some(Route12)} }
        \cup
        { p(Dev1, at(0 - MaxHour, 0), Some(Route12), None),
          p(Dev1, at(0, 0), Some(Route12), Some(App)),
          [p(Dev1, at(0, 0), None, None) EXCEPT !.format_fails = TRUE] }
        \cup
        { p(Dev2, at(0, 0), r, None) : r \in {None, Some(Route12)} }

Batches == UNION { [1..n -> Fetchable] : n \in 0..MaxLen }

\* the batch a source returns: the i-th position has id i
DevicePositions(batch) ==
    [i \in 1..Len(batch) |->
        [ DevicePositionBasic(i, batch[i].device_id, ShapePoint("bend", i), batch[i].time)
            EXCEPT !.route_name   = batch[i].route_name,
                   !.tracker      = batch[i].tracker,
                   !.format_fails = batch[i].format_fails ]]

\* the Err(String) a source's fetch may return, sources/csv_file.rs:51, 57
FetchErrors == { "Failed on read the header", "Failed on read some row" }

\* the options a caller of SourceToTracks::build passes
CallerConfs ==
    { TrackSegmentOptionsDefault,
      [max_duration |-> MaxDur, vw_tolerance |-> Some(1)] }

\* ------------------------------------------------------- inputs of a fetch
\* the longest file has MaxRows rows after its header
MaxRows == 3

\* an OffsetDateTime as RFC 3339 text, "Z" for UTC
Rfc3339Text(time) ==
    LET local == time.unix + time.offset
        date  == CivilFromDays(local \div 86400)
        secs  == local % 86400
        off   == IF time.offset < 0 THEN 0 - time.offset ELSE time.offset
    IN  Digits(date.year, 4) \o <<45>> \o Digits(date.month, 2) \o <<45>>
          \o Digits(date.day, 2) \o <<84>> \o Digits(secs \div 3600, 2)
          \o <<58>> \o Digits((secs % 3600) \div 60, 2) \o <<58>>
          \o Digits(secs % 60, 2)
          \o (IF time.offset = 0 THEN <<90>>
              ELSE <<IF time.offset < 0 THEN 45 ELSE 43>>
                     \o Digits(off \div 3600, 2) \o <<58>>
                     \o Digits((off % 3600) \div 60, 2))

\* the window asked for: from the epoch to MaxHour hours later, as in
\* csv_file.rs:273-276 (from 0:00 to 2:00)
WindowStart == [unix |-> 0, offset |-> 0]

WindowEnd == [unix |-> MaxHour * 3600, offset |-> 0]

\* the timestamps of the rows: a second before the window, its start, its
\* end (as shown an hour east of UTC) and a second after it
RowTimes ==
    { [unix |-> 0 - 1, offset |-> 0],
      [unix |-> 0, offset |-> 0],
      [unix |-> MaxHour * 3600, offset |-> 3600],
      [unix |-> MaxHour * 3600 + 1, offset |-> 0] }

\* coordinates "1,2", "3 4", "5; 6", as in csv_file.rs:225-227
Coordinates12 == <<49, 44, 50>>

Coordinates34 == <<51, 32, 52>>

Coordinates56 == <<53, 59, 32, 54>>

\* the rows of a file under the header device,coordinates,time: positions
\* at every timestamp; the other two separators; coordinates that are
\* blank, three parts ("1,2,3"), no numbers ("a,2" and "1,b"); a timestamp
\* that is only a date; rows of one and two fields; a record that the
\* reader fails on
CsvRows ==
    { Ok(<<Dev1, Coordinates12, Rfc3339Text(t)>>) : t \in RowTimes }
      \cup { Ok(<<Dev1, c, Rfc3339Text(WindowStart)>>) :
               c \in { Coordinates34, Coordinates56, <<32>>,
                       <<49, 44, 50, 44, 51>>, <<97, 44, 50>>,
                       <<49, 44, 98>> } }
      \cup { Ok(<<Dev1, Coordinates12, <<49, 57, 55, 48, 45, 48, 49, 45, 48, 49>> >>),
             Ok(<< <<32>> >>),
             Ok(<<Dev1, Coordinates12>>),
             Err("Failed on read some row") }

\* headers " Device", "TIME", "Coordinates"
PaddedDevice == <<32, 68, 101, 118, 105, 99, 101>>

UpperTime == <<84, 73, 77, 69>>

CapitalCoordinates == <<67, 111, 111, 114, 100, 105, 110, 97, 116, 101, 115>>

\* the files: every list of at most MaxRows rows under the plain header;
\* files whose header is unreadable or lacks a column; files whose fourth
\* column is the coordinates, the timestamp or the device, with rows of
\* four, three and two fields; and a file with a route, a speed and an
\* elevation that is no number
CsvReaders ==
    { [headers |-> Ok(<<DeviceName, CoordinatesName, TimeName>>), records |-> rs] :
        rs \in UNION { [1..n -> CsvRows] : n \in 0..MaxRows } }
      \cup { [headers |-> h, records |-> rs] :
               h \in { Err("Failed on read the header"),
                       Ok(<<CoordinatesName, TimeName, RouteName>>),
                       Ok(<<DeviceName, TimeName, RouteName>>),
                       Ok(<<DeviceName, CoordinatesName, RouteName>>) },
               rs \in [1..1 -> { Ok(<<Dev1, Coordinates12, Rfc3339Text(WindowStart)>>) }] }
      \cup { [headers |-> Ok(<<PaddedDevice, UpperTime, RouteName, CapitalCoordinates>>),
              records |-> rs] :
               rs \in UNION { [1..n ->
                     { Ok(<<Dev1, Rfc3339Text(WindowStart), Route12, Coordinates12>>),
                       Ok(<<Dev1, Rfc3339Text(WindowStart), Route12>>),
                       Ok(<<Dev1, Rfc3339Text(WindowStart)>>) }] : n \in 1..MaxRows } }
      \cup { [headers |-> Ok(<<h[1], h[2], RouteName, h[3]>>), records |-> rs] :
               h \in { <<DeviceName, CoordinatesName, TimeName>>,
                       <<CoordinatesName, TimeName, DeviceName>> },
               rs \in [1..1 -> { Ok(<<Dev1, Coordinates12, Route12>>) }] }
      \cup { [headers |-> Ok(<<DeviceName, CoordinatesName, TimeName, RouteName,
                               SpeedName, ElevationName>>),
              records |-> rs] :
               rs \in [1..1 -> { Ok(<<Dev2, Coordinates12, Rfc3339Text(WindowStart),
                                      <<32>> \o Route12, <<55>>, <<120>> >>) }] }

\* the field names of the source: the defaults, as they are or flipped
CsvFields ==
    { [FieldsConfigurationDefault EXCEPT !.flip_coordinates = flip] :
        flip \in BOOLEAN }

\* --------------------------------------------- inputs of a MongoDbSource
\* the largest collection has MaxDocs documents
MaxDocs == 3

\* "251", "01", "02"
Text251 == <<50, 53, 49>>

Text01 == <<48, 49>>

Text02 == <<48, 50>>

\* a document of the collection, as in mongo.rs:396-404: its id, its
\* device, two coordinates, a date and the other entries
Doc(device, unix, others) ==
    << <<IdName, BsonObjectId(1)>>,
       <<DeviceName, device>>,
       <<CoordinatesName, BsonArray(<<BsonDouble(10), BsonDouble(25)>>)>>,
       <<TimeName, BsonDateTime(unix)>> >> \o others

\* the documents: the devices 251 as an Int32, an Int64, a Double and a
\* String and 2.5 as a Double; the routes of mongo.rs:396-404 and an Int64,
\* an empty array and an array that starts with a null; a device that is a
\* boolean; a document after the window
MongoDocs ==
    { Doc(BsonInt32(251), 0, << <<RouteName, BsonArray(<<BsonString(Text01)>>)>> >>),
      Doc(BsonString(Text251), 60,
          << <<RouteName, BsonArray(<<BsonString(Text01), BsonString(Text02)>>)>> >>),
      Doc(BsonInt64(251), 0, <<>>),
      Doc(BsonDouble(2510), 0, << <<RouteName, BsonNull>> >>),
      Doc(BsonDouble(25), 0, << <<SpeedName, BsonInt32(7)>>,
                                <<ElevationName, BsonString(Text01)>> >>),
      Doc(BsonString(Dev1), 0, << <<RouteName, BsonArray(<<BsonInt32(12)>>)>> >>),
      Doc(BsonString(Dev1), 60, << <<RouteName, BsonInt32(12)>> >>),
      Doc(BsonString(Dev1), 0, << <<RouteName, BsonString(Route12)>> >>),
      Doc(BsonString(Dev1), 0, << <<RouteName, BsonNull>> >>),
      Doc(BsonString(Dev1), 0, << <<RouteName, BsonInt64(12)>> >>),
      Doc(BsonString(Dev1), 0, << <<RouteName, BsonArray(<<>>)>> >>),
      Doc(BsonString(Dev1), 0,
          << <<RouteName, BsonArray(<<BsonNull, BsonString(Text01)>>)>> >>),
      Doc(BsonBoolean(TRUE), 0, <<>>),
      Doc(BsonString(Dev1), MaxHour * 3600 + 1, <<>>) }

\* the collections: every list of at most MaxDocs documents, and one whose
\* find fails
MongoCollections ==
    { [docs |-> ds, fails |-> FALSE] :
        ds \in UNION { [1..n -> MongoDocs] : n \in 0..MaxDocs } }
      \cup { [docs |-> ds, fails |-> TRUE] : ds \in [1..0 -> MongoDocs] }

\* ------------------------------------------------ inputs of load_configs
\* max_duration: 600, main.rs:181
SuppliedMaxDuration == 600

\* the values a file supplies for the field names: "dev_id" (main.rs:181),
\* "when", "line", "coords", "kmh", "alt" and true
SuppliedFields ==
    [ device_id        |-> <<100, 101, 118, 95, 105, 100>>,
      time             |-> <<119, 104, 101, 110>>,
      route            |-> <<108, 105, 110, 101>>,
      coordinates      |-> <<99, 111, 111, 114, 100, 115>>,
      speed            |-> <<107, 109, 104>>,
      elevation        |-> <<97, 108, 116>>,
      flip_coordinates |-> TRUE ]

\* the mappings under the key fields: any of the fields, with these values
FieldsMappings ==
    { [n \in names |-> SuppliedFields[n]] : names \in SUBSET DOMAIN SuppliedFields }

\* the mappings under the key segments: none, either or both of a duration
\* (600, or one more than a u16 holds) and a tolerance
SegmentsMappings ==
    UNION { { m \in [names -> {1, SuppliedMaxDuration, MaxU16 + 1}] :
                /\ "max_duration" \in names => m["max_duration"] # 1
                /\ "vw_tolerance" \in names => m["vw_tolerance"] = 1 } :
            names \in SUBSET {"max_duration", "vw_tolerance"} }

\* the YAML of a configuration file: each of the keys fields and segments
\* is there, with a mapping, or is not
Yamls ==
    [ fields   : {None} \cup { Some(m) : m \in FieldsMappings },
      segments : {None} \cup { Some(m) : m \in SegmentsMappings } ]

\* what reading the options gives (main.rs:116-128: the path provided,
\* .loc2gpx.yaml, the one of the home directory): no file, or a file after
\* up to two that are not read, or two files of which the first lacks the
\* key fields
ConfigFiles ==
    { [i \in 1..n |-> None] : n \in 2..3 }
      \cup { [i \in 1..n |-> IF i < n THEN None ELSE Some(yaml)] :
               n \in 1..3, yaml \in Yamls }
      \cup { [i \in 1..2 |-> Some([yaml EXCEPT !.fields = IF i = 1 THEN None ELSE @])] :
               yaml \in { y \in Yamls : y.fields # None /\ y.segments = Some(<<>>) } }

\* ----------------------------------------------------------- state machine
Init ==
    /\ pc = "start"
    /\ tracker = None
    /\ called = [source |-> None, configure_segments |-> FALSE]
    /\ positions = <<>>
    /\ track = None
    /\ fetched = None
    /\ fetch_calls = 0
    /\ segment_confs = None
    /\ tracks = None
    /\ csv = None
    /\ mongo = None
    /\ files = <<>>
    /\ configs = None

\* Tracker::new(device, name)
New ==
    /\ pc = "start"
    /\ \E device \in {Dev1}, name \in TrackNames :
          tracker' = Some(TrackerNew(device, name))
    /\ pc' = "tracker"
    /\ UNCHANGED <<called, positions, track, fetched, fetch_calls, segment_confs, tracks, csv, mongo, files, configs>>

\* tracker.source(source)
Source ==
    /\ pc = "tracker"
    /\ \E app \in Apps :
          /\ tracker' = Some(TrackerSource(Unwrap(tracker), app))
          /\ called' = [called EXCEPT !.source = Some(app)]
    /\ UNCHANGED <<pc, positions, track, fetched, fetch_calls, segment_confs, tracks, csv, mongo, files, configs>>

\* tracker.configure_segments(&conf)
ConfigureSegments ==
    /\ pc = "tracker"
    /\ \E conf \in SegmentConfs :
          tracker' = Some(TrackerConfigureSegments(Unwrap(tracker), conf))
    /\ called' = [called EXCEPT !.configure_segments = TRUE]
    /\ UNCHANGED <<pc, positions, track, fetched, fetch_calls, segment_confs, tracks, csv, mongo, files, configs>>

\* tracker.build(positions)
Build ==
    /\ pc = "tracker"
    /\ \E input \in BuildInputs :
          /\ positions' = RawPositionsWith(input[1], input[2], input[3])
          /\ \E t \in TrackerBuild(Unwrap(tracker), positions') : track' = Some(t)
    /\ pc' = "built"
    /\ UNCHANGED <<tracker, called, fetched, fetch_calls, segment_confs, tracks, csv, mongo, files, configs>>

Next == New \/ Source \/ ConfigureSegments \/ Build

Spec == Init /\ [][Next]_vars

\* SourceToTracks::build(source, start, end, segment_confs) with a source
\* whose fetch succeeds; the one call of source.fetch is at tracker.rs:134
BuildFromSource ==
    /\ pc = "start"
    /\ \E batch \in Batches, confs \in CallerConfs :
          /\ fetched' = Ok(DevicePositions(batch))
          /\ fetch_calls' = fetch_calls + 1
          /\ segment_confs' = Some(confs)
          /\ tracks' \in SourceToTracksResults(fetched', confs)
    /\ pc' = "done"
    /\ UNCHANGED <<tracker, called, positions, track, csv, mongo, files, configs>>

\* SourceToTracks::build with a source whose fetch fails
BuildFromFailingSource ==
    /\ pc = "start"
    /\ \E e \in FetchErrors, confs \in CallerConfs :
          /\ fetched' = Err(e)
          /\ fetch_calls' = fetch_calls + 1
          /\ segment_confs' = Some(confs)
          /\ tracks' \in SourceToTracksResults(fetched', confs)
    /\ pc' = "done"
    /\ UNCHANGED <<tracker, called, positions, track, csv, mongo, files, configs>>

NextSource == BuildFromSource \/ BuildFromFailingSource

SpecSource == Init /\ [][NextSource]_vars

\* SourceToTracks::build(source, start, end, op) with a CsvSource, as in
\* csv_file.rs:267-277: the fetch of the source is CsvSource::fetch
BuildFromCsv ==
    /\ pc = "start"
    /\ \E rdr \in CsvReaders, fields \in CsvFields :
          /\ csv' = Some([rdr |-> rdr, fields |-> fields,
                          start |-> WindowStart, end |-> WindowEnd])
          /\ fetched' = CsvFetch(rdr, fields, WindowStart, WindowEnd)
          /\ fetch_calls' = fetch_calls + 1
          /\ segment_confs' = Some(TrackSegmentOptionsDefault)
          /\ tracks' \in SourceToTracksResults(fetched', TrackSegmentOptionsDefault)
    /\ pc' = "done"
    /\ UNCHANGED <<tracker, called, positions, track, mongo, files, configs>>

NextCsv == BuildFromCsv

SpecCsv == Init /\ [][NextCsv]_vars

\* SourceToTracks::build(source, start, end, op) with a MongoDbSource, as in
\* mongo.rs:410-418: the fetch of the source is MongoDbSource::fetch
BuildFromMongo ==
    /\ pc = "start"
    /\ \E collection \in MongoCollections, fields \in CsvFields :
          /\ mongo' = Some([collection |-> collection, fields |-> fields,
                            start |-> WindowStart, end |-> WindowEnd])
          /\ fetched' = MongoFetch(collection, fields, WindowStart, WindowEnd)
          /\ fetch_calls' = fetch_calls + 1
          /\ segment_confs' = Some(TrackSegmentOptionsDefault)
          /\ tracks' \in SourceToTracksResults(fetched', TrackSegmentOptionsDefault)
    /\ pc' = "done"
    /\ UNCHANGED <<tracker, called, positions, track, csv, files, configs>>

NextMongo == BuildFromMongo

SpecMongo == Init /\ [][NextMongo]_vars

\* load_configs(provided), main.rs:48, 97
LoadTheConfigs ==
    /\ pc = "start"
    /\ \E read \in ConfigFiles :
          /\ files' = read
          /\ configs' = Some(LoadConfigs(read))
    /\ pc' = "loaded"
    /\ UNCHANGED <<tracker, called, positions, track, fetched, fetch_calls,
                   segment_confs, tracks, csv, mongo>>

NextConfigs == LoadTheConfigs

SpecConfigs == Init /\ [][NextConfigs]_vars

\* a program that uses a Tracker of its own or SourceToTracks
NextBoth == Next \/ NextSource

SpecBoth == Init /\ [][NextBoth]_vars

\* ---------------------------------------------------- Tracker::build claims
Built == pc = "built"

BuiltTrack == Unwrap(track)

Confs == Unwrap(tracker).segment_confs

Segments == BuiltTrack.segments

UnixOf(wp) == Unwrap(wp.time).unix

PointsOf(seg) == { seg.points[j] : j \in 1..Len(seg.points) }

IdsOf(seg) == { wp.id : wp \in PointsOf(seg) }

InputTimes == { positions[i].time.unix : i \in 1..Len(positions) }

\* the number of waypoints of a list of segments
RECURSIVE CountPoints(_)
CountPoints(segments) ==
    IF segments = <<>> THEN 0
    ELSE Len(segments[1].points) + CountPoints(Tail(segments))

\* the window of width D a timestamp falls in: the multiple k of D with
\* k <= unix < k + D, that is floor(unix / D) * D
WindowOf(unix, D) == unix - (unix % D)

\* C1: with max_duration D >= 1, two waypoints of the built Track are in the
\* same segment if and only if their timestamps have the same bucket key
\* floor(unix / D) * D, also before the epoch; without simplification every
\* position has its waypoint in some segment.
C1_SegmentIsBucket ==
    (Built /\ Confs.max_duration >= 1) =>
        /\ \A i \in 1..Len(Segments), j \in 1..Len(Segments) :
             \A wp \in PointsOf(Segments[i]), wq \in PointsOf(Segments[j]) :
                (i = j) <=> (WindowOf(UnixOf(wp), Confs.max_duration)
                             = WindowOf(UnixOf(wq), Confs.max_duration))
        /\ Confs.vw_tolerance = None =>
             \A n \in 1..Len(positions) :
                \E i \in 1..Len(Segments) : n \in IdsOf(Segments[i])

C1_Witness ==
    /\ Built
    /\ Confs.max_duration = 2
    /\ Len(Segments) = 2
    /\ InputTimes = {-1, 0}

\* C2: the segments of the built Track are in strictly ascending bucket-key
\* order, so no two of them share a bucket key, for any input order and with
\* or without simplification.
C2_SegmentsAscending ==
    Built =>
        \A i \in 1..Len(Segments), j \in 1..Len(Segments) :
           i < j =>
             \A wp \in PointsOf(Segments[i]), wq \in PointsOf(Segments[j]) :
                BucketKey(UnixOf(wp), Confs.max_duration)
                  < BucketKey(UnixOf(wq), Confs.max_duration)

C2_Witness ==
    /\ Built
    /\ IsSome(Confs.vw_tolerance)
    /\ Len(positions) = 3
    /\ positions[1].time.unix > positions[3].time.unix
    /\ Len(Segments) = 3

\* C3: in every segment of the built Track the waypoint timestamps are
\* non-decreasing, for any input order and with or without simplification.
C3_TimesNonDecreasing ==
    Built =>
        \A i \in 1..Len(Segments) :
           \A a \in 1..Len(Segments[i].points), b \in 1..Len(Segments[i].points) :
              a < b => UnixOf(Segments[i].points[a]) <= UnixOf(Segments[i].points[b])

C3_Witness ==
    /\ Built
    /\ Len(positions) = 3
    /\ positions[1].time.unix > positions[2].time.unix
    /\ positions[2].time.unix > positions[3].time.unix
    /\ Len(Segments) = 1
    /\ Len(Segments[1].points) = 3

\* C4: within a segment, waypoints of equal timestamp keep the relative
\* order their positions had in the input list (the sort is stable), and
\* waypoints of different timestamps are in ascending order.
C4_StableOrder ==
    Built =>
        \A i \in 1..Len(Segments) :
           \A a \in 1..Len(Segments[i].points), b \in 1..Len(Segments[i].points) :
              a < b =>
                LET wa == Segments[i].points[a]
                    wb == Segments[i].points[b]
                IN  \/ UnixOf(wa) < UnixOf(wb)
                    \/ UnixOf(wa) = UnixOf(wb) /\ wa.id < wb.id

C4_Witness ==
    /\ Built
    /\ Len(positions) = 3
    /\ Cardinality(InputTimes) = 1
    /\ Confs.vw_tolerance = None
    /\ Len(Segments) = 1
    /\ [j \in 1..3 |-> Segments[1].points[j].id] = <<1, 2, 3>>

\* the one segment holds all N points in time order
OneSegmentWithAll ==
    /\ Len(Segments) = 1
    /\ Len(Segments[1].points) = Len(positions)
    /\ IdsOf(Segments[1]) = 1..Len(positions)
    /\ \A a \in 1..Len(positions), b \in 1..Len(positions) :
          a < b => UnixOf(Segments[1].points[a]) <= UnixOf(Segments[1].points[b])

\* latest minus earliest timestamp of the input
Span ==
    (CHOOSE t \in InputTimes : \A o \in InputTimes : o <= t)
      - (CHOOSE t \in InputTimes : \A o \in InputTimes : t <= o)

\* C5 as stated: N >= 1 positions, no simplification and max_duration larger
\* than the span of the timestamps give one segment with all N points.
C5_SpanBelowDuration ==
    (Built /\ Len(positions) >= 1 /\ Confs.vw_tolerance = None
       /\ Confs.max_duration > Span)
    => OneSegmentWithAll

\* C5, amended: N >= 1 positions, no simplification and max_duration D >= 1
\* such that all timestamps fall in one window [k * D, (k + 1) * D) give one
\* segment with all N points in time order.
C5_OneWindowOneSegment ==
    (Built /\ Len(positions) >= 1 /\ Confs.vw_tolerance = None
       /\ Confs.max_duration >= 1
       /\ Cardinality({ WindowOf(t, Confs.max_duration) : t \in InputTimes }) = 1)
    => OneSegmentWithAll

C5_Witness ==
    /\ Built
    /\ Len(positions) = 3
    /\ Confs.vw_tolerance = None
    /\ Confs.max_duration = 2
    /\ InputTimes = {-2, -1}
    /\ OneSegmentWithAll

\* C6 as stated: max_duration = 0 is clamped to 1, so the built Track is one
\* that Tracker::build returns for the same tracker with max_duration = 1
\* (one segment per distinct unix second).
C6_ZeroClampedToOne ==
    (Built /\ Confs.max_duration = 0) =>
        /\ BuiltTrack \in TrackerBuild(
              TrackerConfigureSegments(Unwrap(tracker),
                                       [Confs EXCEPT !.max_duration = 1]),
              positions)
        /\ Confs.vw_tolerance = None => Len(Segments) = Cardinality(InputTimes)

\* C17: Tracker::build on an empty list of positions returns a Track without
\* segments that has the tracker's name, the description of its device and
\* its source, with or without a simplification tolerance.
C17_EmptyListEmptyTrack ==
    (Built /\ positions = <<>>) =>
        /\ IsSome(track)
        /\ Segments = <<>>
        /\ BuiltTrack.name = Some(Unwrap(tracker).name)
        /\ BuiltTrack.description = Some(Description(Unwrap(tracker).device))
        /\ BuiltTrack.source = Unwrap(tracker).source

C17_Witness ==
    /\ Built
    /\ positions = <<>>
    /\ IsSome(Confs.vw_tolerance)
    /\ BuiltTrack.source = Some(App)
    /\ Len(Segments) = 0

\* the Track the same tracker builds from the same positions when no
\* tolerance is configured
Unsimplified ==
    CHOOSE t \in TrackerBuild(
                    TrackerConfigureSegments(Unwrap(tracker),
                                             [Confs EXCEPT !.vw_tolerance = None]),
                    positions) : TRUE

\* the waypoints of `original` that are in `kept`, in the order of `original`
Retained(original, kept) ==
    LET IsKept(wp) == wp \in PointsOf(kept)
    IN  SelectSeq(original.points, IsKept)

\* C18: with a tolerance configured, every segment of the built Track is a
\* subsequence, in the original order, of the waypoints the segment holds
\* without simplification, has that segment's first and last waypoint, and
\* has at most as many points.
C18_SimplifiedIsSubsequence ==
    (Built /\ IsSome(Confs.vw_tolerance)) =>
      LET plain == Unsimplified.segments
      IN
        /\ Len(Segments) = Len(plain)
        /\ \A i \in 1..Len(Segments) :
              LET kept     == Segments[i]
                  original == plain[i]
              IN  /\ PointsOf(kept) \subseteq PointsOf(original)
                  /\ kept.points = Retained(original, kept)
                  /\ Len(kept.points) <= Len(original.points)
                  /\ Len(kept.points) >= 1
                  /\ kept.points[1] = original.points[1]
                  /\ kept.points[Len(kept.points)]
                       = original.points[Len(original.points)]

C18_Witness ==
    /\ Built
    /\ Confs.vw_tolerance = Some(1)
    /\ Len(positions) = 3
    /\ Len(Segments) = 1
    /\ Len(Unsimplified.segments[1].points) = 3
    /\ [j \in 1..2 |-> Segments[1].points[j].id]
         = << Unsimplified.segments[1].points[1].id,
              Unsimplified.segments[1].points[3].id >>

\* C20: for the same positions and max_duration, the Track built with a
\* tolerance has as many segments, in the same order, as the Track built
\* without one; its i-th segment is an outcome of simplifying the i-th
\* unsimplified segment alone, and holds no waypoint of another segment.
C20_SimplifiedPerSegment ==
    (Built /\ IsSome(Confs.vw_tolerance)) =>
      LET plain == Unsimplified.segments
      IN
        /\ Len(Segments) = Len(plain)
        /\ \A i \in 1..Len(Segments) :
              /\ Segments[i] \in EmitSegment(plain[i], Confs.vw_tolerance)
              /\ \A j \in 1..Len(plain) :
                    i # j => PointsOf(Segments[i]) \cap PointsOf(plain[j]) = {}

\* a segment that loses a point beside a segment that has one point only
C20_Witness ==
    /\ Built
    /\ Confs.vw_tolerance = Some(1)
    /\ Len(positions) = 4
    /\ Len(Segments) = 2
    /\ Len(Unsimplified.segments[1].points) = 3
    /\ Len(Segments[1].points) = 2
    /\ Len(Segments[2].points) = 1

\* Visvalingam-Whyatt as the claim words it: of the points still kept, the
\* interior one with the least triangle area with its current neighbours is
\* removed, as long as that area does not exceed the tolerance; points of
\* equal least area may go in any order.  The sets of indices that may stay.
RECURSIVE RemoveLeast(_, _, _)
RemoveLeast(pts, kept, tol) ==
    LET prev(i)  == CHOOSE l \in kept : l < i /\ \A o \in kept : o < i => o <= l
        next(i)  == CHOOSE r \in kept : r > i /\ \A o \in kept : o > i => o >= r
        interior == { i \in kept : (\E l \in kept : l < i) /\ (\E r \in kept : r > i) }
        area(i)  == Area2(pts[prev(i)], pts[i], pts[next(i)])
        least    == { i \in interior : \A o \in interior : area(i) <= area(o) }
    IN  IF interior = {} THEN { kept }
        ELSE IF \A i \in least : area(i) > 2 * tol THEN { kept }
        ELSE UNION { RemoveLeast(pts, kept \ {i}, tol) : i \in least }

CoordinatesOf(seg) == [j \in 1..Len(seg.points) |-> seg.points[j].coordinates]

\* the indices, in the unsimplified segment, of the points the segment keeps
KeptIndices(kept, original) ==
    { j \in 1..Len(original.points) : original.points[j] \in PointsOf(kept) }

C22_WaypointCarriesPosition ==
    Built =>
        \A i \in 1..Len(Segments) :
           \A wp \in PointsOf(Segments[i]) :
              /\ wp.id \in 1..Len(positions)
              /\ wp.coordinates = positions[wp.id].coordinates
              /\ wp.time = Some(positions[wp.id].time)
              /\ wp.speed = positions[wp.id].speed
              /\ wp.elevation = positions[wp.id].altitude

\* a simplified Track with a waypoint that has a speed of 0 and no
\* elevation, and one that has an elevation and no speed
C22_Witness ==
    /\ Built
    /\ IsSome(Confs.vw_tolerance)
    /\ Len(positions) = 3
    /\ \E i \in 1..Len(Segments) :
          \E wp \in PointsOf(Segments[i]) :
             wp.speed = Some(0) /\ wp.elevation = None
    /\ \E i \in 1..Len(Segments) :
          \E wp \in PointsOf(Segments[i]) :
             wp.speed = None /\ wp.elevation = Some(2)

\* C23: the built Track has the name given to new(), the description
\* "Tracked by `device`" with the device given to new(), and as source the
\* argument of the last source(), or none if source() was never called; a
\* Tracker on which configure_segments() was never called cuts the segments
\* by windows of 300 seconds and drops no point.
C23_TrackOfTracker ==
    Built =>
        /\ BuiltTrack.name = Some(Unwrap(tracker).name)
        /\ BuiltTrack.name \in { Some(name) : name \in TrackNames }
        /\ BuiltTrack.description = Some(TrackedBy \o Unwrap(tracker).device \o <<96>>)
        /\ BuiltTrack.source = called.source
        /\ ~called.configure_segments =>
              /\ CountPoints(Segments) = Len(positions)
              /\ \A i \in 1..Len(Segments), j \in 1..Len(Segments) :
                    \A wp \in PointsOf(Segments[i]), wq \in PointsOf(Segments[j]) :
                       (i = j) <=> (WindowOf(UnixOf(wp), 300) = WindowOf(UnixOf(wq), 300))

C23_Witness ==
    /\ Built
    /\ ~called.configure_segments
    /\ called.source = Some(Gps)
    /\ BuiltTrack.source = Some(Gps)
    /\ Len(positions) = 3
    /\ Len(Segments) = 2

\* the distance in seconds of two unix times
Apart(a, b) == IF a < b THEN b - a ELSE a - b

\* C28: with max_duration D >= 1, two waypoints of one segment of the built
\* Track have unix times less than D apart, and two positions D or more
\* seconds apart have no segment in common.
C28_SegmentNarrowerThanDuration ==
    (Built /\ Confs.max_duration >= 1) =>
        /\ \A i \in 1..Len(Segments) :
              \A wp \in PointsOf(Segments[i]), wq \in PointsOf(Segments[i]) :
                 Apart(UnixOf(wp), UnixOf(wq)) < Confs.max_duration
        /\ \A m \in 1..Len(positions), n \in 1..Len(positions) :
              Apart(positions[m].time.unix, positions[n].time.unix) >= Confs.max_duration
                => \A i \in 1..Len(Segments) : ~({m, n} \subseteq IdsOf(Segments[i]))

\* times 0 and 1 in one segment, time 2 in the next
C28_Witness ==
    /\ Built
    /\ Confs.max_duration = 2
    /\ Confs.vw_tolerance = None
    /\ InputTimes = {0, 1, 2}
    /\ Len(Segments) = 2
    /\ Len(Segments[1].points) = 2

\* --------------------------------------------- SourceToTracks::build claims
DoneOk == pc = "done" /\ IsOk(tracks)

Fetched == fetched[2]

Returned == tracks[2]

NoTolerance == Unwrap(segment_confs).vw_tolerance = None

\* the ids of the fetched positions with a waypoint in the Track t
TrackIds(t) == UNION { IdsOf(t.segments[i]) : i \in 1..Len(t.segments) }

\* the Track t is the one of device `device_id` and is named `name`
IsTrackOf(t, device_id, name) ==
    t.description = Some(Description(device_id)) /\ t.name = Some(name)

\* str::trim leaves nothing: only white space (or nothing at all)
IsBlank(str) == \A i \in 1..Len(str) : str[i] \in {9, 10, 11, 12, 13, 32}

\* the name a position without a label gets
DateNameOf(pos) == RouteOf([pos EXCEPT !.route_name = None])[2]

\* C7 as stated: a position is grouped under its route label only when the
\* label is present and not blank; a position with a blank label is grouped,
\* and its Track named, under the date of its timestamp, like a position
\* with no label.
C7_BlankLabelGroupedByDate ==
    DoneOk =>
        \A i \in 1..Len(Fetched) :
           LET pos == Fetched[i]
               key == IF IsSome(pos.route_name) /\ ~IsBlank(Unwrap(pos.route_name))
                      THEN Unwrap(pos.route_name)
                      ELSE DateNameOf(pos)
           IN  \E k \in 1..Len(Returned) :
                  /\ IsTrackOf(Returned[k], pos.device_id, key)
                  /\ NoTolerance => i \in TrackIds(Returned[k])

\* the date of the instant in UTC, as a name
UtcDateNameOf(pos) == FormatDay([pos.pos.time EXCEPT !.offset = 0])[2]

\* C8 as stated: an unlabelled position is in a Track named by the UTC day
\* of its instant, and two unlabelled positions of one device are in the
\* same Track if and only if their instants fall on the same UTC day,
\* whatever their offsets.
C8_UnlabelledGroupedByUtcDay ==
    (DoneOk /\ NoTolerance) =>
        \A i \in 1..Len(Fetched), j \in 1..Len(Fetched) :
           LET p == Fetched[i]
               q == Fetched[j]
           IN  (p.route_name = None /\ q.route_name = None
                  /\ p.device_id = q.device_id)
               => /\ \E k \in 1..Len(Returned) :
                        /\ i \in TrackIds(Returned[k])
                        /\ IsTrackOf(Returned[k], p.device_id, UtcDateNameOf(p))
                  /\ (\E k \in 1..Len(Returned) : {i, j} \subseteq TrackIds(Returned[k]))
                       <=> (p.pos.time.unix \div 86400 = q.pos.time.unix \div 86400)

\* the members, in fetched order, of the group the Track t was built from
MembersOf(t) ==
    LET IsMember(pos) == IsTrackOf(t, pos.device_id, RouteOf(pos)[2])
    IN  SelectSeq(Fetched, IsMember)

\* the tracker tag of the first position of a list that carries one
RECURSIVE FirstTag(_)
FirstTag(ps) ==
    IF ps = <<>> THEN None
    ELSE IF IsSome(ps[1].tracker) THEN ps[1].tracker
    ELSE FirstTag(Tail(ps))

\* C9 as stated: the source of each returned Track is the tracker tag of the
\* first member of its group, in fetched order, that carries a tag, and is
\* absent only when no member carries one.
C9_SourceIsFirstTag ==
    DoneOk =>
        \A k \in 1..Len(Returned) :
           Returned[k].source = FirstTag(MembersOf(Returned[k]))

\* the grouping keys (device_id, route key) of the fetched batch, the route
\* key being the one the build derives for the position
FetchedKeys ==
    { <<Fetched[i].device_id, RouteOf(Fetched[i])[2]>> : i \in 1..Len(Fetched) }

KeysOfTrack(t) == { key \in FetchedKeys : IsTrackOf(t, key[1], key[2]) }

\* C10: the build returns exactly one Track per distinct (device_id, route
\* key) pair of the fetched batch, in ascending lexicographic order of the
\* pairs, whatever the order of the batch.
C10_OneTrackPerKeyAscending ==
    DoneOk =>
        /\ Len(Returned) = Cardinality(FetchedKeys)
        /\ \A key \in FetchedKeys :
              Cardinality({ k \in 1..Len(Returned) : key \in KeysOfTrack(Returned[k]) }) = 1
        /\ \A k \in 1..Len(Returned) : Cardinality(KeysOfTrack(Returned[k])) = 1
        /\ \A k \in 1..Len(Returned), l \in 1..Len(Returned) :
              k < l => \A a \in KeysOfTrack(Returned[k]), b \in KeysOfTrack(Returned[l]) :
                          KeyLess(a, b)

C10_Witness ==
    /\ DoneOk
    /\ Len(Fetched) = 3
    /\ Len(Returned) = 3
    /\ Fetched[1].device_id = Dev2
    /\ Fetched[2].route_name = None
    /\ Fetched[3].route_name = Some(BlankRoute)
    /\ IsTrackOf(Returned[1], Dev1, BlankRoute)
    /\ Returned[3].description = Some(Description(Dev2))

\* the grouping keys of the fetched positions with a waypoint in the Track t
KeysIn(t) ==
    { <<Fetched[i].device_id, RouteOf(Fetched[i])[2]>> : i \in TrackIds(t) }

\* C11: every waypoint of a returned Track is the waypoint of a fetched
\* position whose device_id is the device of the Track's description and
\* whose route key (the one the build derives for it) is the Track's name;
\* the positions of a Track have one device and one route key.
C11_TrackOfOneKey ==
    DoneOk =>
        \A k \in 1..Len(Returned) :
           /\ \A s \in 1..Len(Returned[k].segments) :
                 \A wp \in PointsOf(Returned[k].segments[s]) :
                    /\ wp.id \in 1..Len(Fetched)
                    /\ wp = WaypointOf(Fetched[wp.id].pos)
                    /\ IsTrackOf(Returned[k], Fetched[wp.id].device_id,
                                 RouteOf(Fetched[wp.id])[2])
           /\ Cardinality(KeysIn(Returned[k])) <= 1

C11_Witness ==
    /\ DoneOk
    /\ Len(Fetched) = 3
    /\ { Fetched[i].device_id : i \in 1..3 } = { Dev1, Dev2 }
    /\ Cardinality({ Fetched[i].route_name : i \in 1..3 }) = 2
    /\ Len(Returned) = 2
    /\ \E k \in 1..2 : Cardinality(TrackIds(Returned[k])) = 2

\* the sequences with the elements of seq in every order
PermutationsOf(seq) ==
    { [i \in 1..Len(seq) |-> seq[f[i]]] : f \in Permutations(1..Len(seq)) }

ElementsOf(seq) == { seq[i] : i \in 1..Len(seq) }

\* C12: for every permutation of the fetched batch the grouping loop gives
\* the same set of keys and, for each key, the same set of positions, and
\* the build returns Tracks of the same names and devices in the same
\* order, each (without simplification) with the same positions.
C12_GroupingOrderInsensitive ==
    DoneOk =>
        LET groups == GroupPositions(<<>>, Fetched)[2]
        IN  \A perm \in PermutationsOf(Fetched) :
           LET permuted == GroupPositions(<<>>, perm)
           IN  /\ IsOk(permuted)
               /\ DOMAIN permuted[2] = DOMAIN groups
               /\ \A key \in DOMAIN groups :
                     ElementsOf(permuted[2][key]) = ElementsOf(groups[key])
               /\ \A r \in SourceToTracksResults(Ok(perm), Unwrap(segment_confs)) :
                     /\ IsOk(r)
                     /\ Len(r[2]) = Len(Returned)
                     /\ \A k \in 1..Len(Returned) :
                           /\ r[2][k].name = Returned[k].name
                           /\ r[2][k].description = Returned[k].description
                           /\ NoTolerance => TrackIds(r[2][k]) = TrackIds(Returned[k])

C12_Witness ==
    /\ DoneOk
    /\ Len(Fetched) = 3
    /\ Len(Returned) = 2
    /\ TrackIds(Returned[1]) = {2}
    /\ TrackIds(Returned[2]) = {1, 3}

\* the segments of the Track t that hold the waypoint of fetched position i
SegmentsWith(t, i) == { s \in 1..Len(t.segments) : i \in IdsOf(t.segments[s]) }

\* positions i and j of the batch have one device and one explicit label
SameLabel(i, j) ==
    /\ Fetched[i].device_id = Fetched[j].device_id
    /\ IsSome(Fetched[i].route_name)
    /\ ~IsBlank(Unwrap(Fetched[i].route_name))
    /\ Fetched[i].route_name = Fetched[j].route_name

\* C13: two fetched positions with the same device and the same explicit
\* label are never in different Tracks, however far apart in time; without
\* simplification both are in one Track, named by the label, and they are in
\* the same segment of it exactly when their bucket keys are equal.
C13_LabelGroupsAcrossDays ==
    DoneOk =>
        \A i \in 1..Len(Fetched), j \in 1..Len(Fetched) :
           SameLabel(i, j) =>
             /\ \A k \in 1..Len(Returned), l \in 1..Len(Returned) :
                   (i \in TrackIds(Returned[k]) /\ j \in TrackIds(Returned[l]))
                     => k = l
             /\ NoTolerance =>
                   \E k \in 1..Len(Returned) :
                      /\ {i, j} \subseteq TrackIds(Returned[k])
                      /\ IsTrackOf(Returned[k], Fetched[i].device_id,
                                   Unwrap(Fetched[i].route_name))
                      /\ (SegmentsWith(Returned[k], i) = SegmentsWith(Returned[k], j))
                           <=> (BucketKey(Fetched[i].pos.time.unix,
                                          Unwrap(segment_confs).max_duration)
                                = BucketKey(Fetched[j].pos.time.unix,
                                            Unwrap(segment_confs).max_duration))

C13_Witness ==
    /\ DoneOk
    /\ Len(Fetched) = 2
    /\ SameLabel(1, 2)
    /\ DateNameOf(Fetched[1]) # DateNameOf(Fetched[2])
    /\ Len(Returned) = 1
    /\ Len(Returned[1].segments) = 2
    /\ TrackIds(Returned[1]) = {1, 2}

\* C14: when the source's fetch returns an error the build returns that
\* error, and no Track; a build calls fetch exactly once, whether the fetch
\* succeeds or fails.
C14_FetchErrorReturned ==
    pc = "done" =>
        /\ fetch_calls = 1
        /\ IsErr(fetched) => tracks = fetched

C14_Witness ==
    /\ pc = "done"
    /\ fetched = Err("Failed on read some row")
    /\ tracks = Err("Failed on read some row")
    /\ fetch_calls = 1

\* the fetched positions that have no label and whose date cannot be formatted
Unformattable ==
    { i \in 1..Len(Fetched) : Fetched[i].route_name = None /\ Fetched[i].format_fails }

\* C15: when the fetch succeeds and the formatting of the date fails for an
\* unlabelled position of the batch, the build returns the formatting
\* error, and so no Track of any group.
C15_FormatErrorAborts ==
    (pc = "done" /\ IsOk(fetched) /\ Unformattable # {}) =>
        tracks = Err(FormatError)

C15_Witness ==
    /\ pc = "done"
    /\ IsOk(fetched)
    /\ Len(Fetched) = 3
    /\ Fetched[1].device_id = Dev2
    /\ Fetched[2].route_name = Some(Route12)
    /\ Unformattable = {3}
    /\ IsErr(tracks)

\* C16: when the fetch succeeds with an empty batch the build succeeds and
\* returns an empty list of Tracks.
C16_EmptyBatchNoTracks ==
    (pc = "done" /\ fetched = Ok(<<>>)) => tracks = Ok(<<>>)

C16_Witness ==
    /\ pc = "done"
    /\ IsOk(fetched)
    /\ Len(Fetched) = 0
    /\ IsSome(Unwrap(segment_confs).vw_tolerance)
    /\ IsOk(tracks)
    /\ Len(Returned) = 0

\* ------------------------------------------------ claims about both builds
\* the places <<segment, index>> of the Track t that hold a waypoint of id n
PlacesOf(t, n) ==
    { place \in UNION { { <<s, j>> : j \in 1..Len(t.segments[s].points) } :
                          s \in 1..Len(t.segments) } :
        t.segments[place[1]].points[place[2]].id = n }

\* C19: with no tolerance configured, Tracker::build emits for every input
\* position exactly one waypoint (its own) and no other waypoint, and
\* SourceToTracks::build puts every fetched position in exactly one place
\* of exactly one Track.
C19_NoToleranceKeepsAll ==
    /\ (Built /\ Confs.vw_tolerance = None) =>
          /\ CountPoints(Segments) = Len(positions)
          /\ \A n \in 1..Len(positions) :
                /\ Cardinality(PlacesOf(BuiltTrack, n)) = 1
                /\ \A place \in PlacesOf(BuiltTrack, n) :
                      Segments[place[1]].points[place[2]] = WaypointOf(positions[n])
    /\ (DoneOk /\ NoTolerance) =>
          \A i \in 1..Len(Fetched) :
             /\ Cardinality({ k \in 1..Len(Returned) : PlacesOf(Returned[k], i) # {} }) = 1
             /\ \A k \in 1..Len(Returned) : Cardinality(PlacesOf(Returned[k], i)) <= 1

\* three fetched positions in two Tracks, the first built by its Tracker
\* from two positions, a day apart, and the second from one
C19_Witness ==
    /\ DoneOk
    /\ NoTolerance
    /\ Len(Fetched) = 3
    /\ Len(Returned) = 2
    /\ Len(MembersOf(Returned[1])) = 2
    /\ Len(Returned[1].segments) = 2
    /\ CountPoints(Returned[1].segments) = 2
    /\ CountPoints(Returned[2].segments) = 1

\* C29: nothing empty is emitted.  Tracker::build emits one segment per
\* bucket key that a position has, none for a window without positions, and
\* every segment has a waypoint, also after simplification; every Track
\* that SourceToTracks::build returns was built from a group with a first
\* member and has a segment, and every segment of it has a waypoint.
C29_NothingEmpty ==
    /\ Built =>
          /\ Len(Segments)
               = Cardinality({ BucketKey(t, Confs.max_duration) : t \in InputTimes })
          /\ \A i \in 1..Len(Segments) : Len(Segments[i].points) >= 1
    /\ DoneOk =>
          \A k \in 1..Len(Returned) :
             /\ Len(MembersOf(Returned[k])) >= 1
             /\ Len(Returned[k].segments) >= 1
             /\ \A i \in 1..Len(Returned[k].segments) :
                   Len(Returned[k].segments[i].points) >= 1

\* a simplified Track of two positions an hour apart: two segments, none
\* for the windows between them
C29_Witness ==
    /\ DoneOk
    /\ ~NoTolerance
    /\ Len(Fetched) = 3
    /\ Len(Returned) = 2
    /\ Len(MembersOf(Returned[1])) = 2
    /\ Len(Returned[1].segments) = 2
    /\ Len(Returned[2].segments) = 1

\* ---------------------------------------------------- claims: CsvSource
\* SourceToTracks::build returned from a CsvSource
CsvDone == pc = "done" /\ csv # None

CsvCall == Unwrap(csv)

CsvRecords == CsvCall.rdr.records

\* what parse_row makes of every record of the file that was read
RowPositions ==
    LET header_idx == ParseHeader(CsvCall.fields, CsvCall.rdr.headers[2])[2]
    IN  [ i \in 1..Len(CsvRecords) |->
            IF IsOk(CsvRecords[i])
            THEN ParseRow(header_idx, CsvCall.fields, CsvRecords[i][2], i)
            ELSE CsvRecords[i] ]

\* the records that make a position: read, of three fields or more, and
\* parsed to a position
ParsedRows(rows) ==
    { i \in 1..Len(CsvRecords) :
        /\ IsOk(CsvRecords[i])
        /\ Len(CsvRecords[i][2]) >= 3
        /\ IsOk(rows[i])
        /\ IsSome(rows[i][2]) }

\* the timestamp of a parsed row, as an instant
RowUnix(rows, i) == Unwrap(rows[i][2]).pos.time.unix

\* the parsed rows whose timestamp is an instant of the window, both ends
\* included
RowsInWindow(rows) ==
    { i \in ParsedRows(rows) :
        CsvCall.start.unix <= RowUnix(rows, i)
          /\ RowUnix(rows, i) <= CsvCall.end.unix }

\* C24: a fetch of CsvSource that succeeds returns the positions of
\* exactly the parsed rows whose timestamp t has start <= t <= end, in the
\* order of the file, and the Tracks built from it hold a waypoint of
\* these rows only.
C24_WindowInclusiveInFileOrder ==
    (CsvDone /\ IsOk(fetched)) =>
        LET rows   == RowPositions
            wanted == RowsInWindow(rows)
        IN  /\ { Fetched[k].pos.id : k \in 1..Len(Fetched) } = wanted
            /\ \A k \in 1..Len(Fetched) :
                  /\ Fetched[k] = Unwrap(rows[Fetched[k].pos.id][2])
                  /\ \A l \in (k + 1)..Len(Fetched) :
                        Fetched[k].pos.id < Fetched[l].pos.id
            /\ IsOk(tracks)
            /\ UNION { TrackIds(Returned[k]) : k \in 1..Len(Returned) } = wanted

\* a file of a row at the end of the window, a row a second after it and
\* a row at the start of the window: the first and the third are returned,
\* in this order, and are the two waypoints of the one Track
C24_Witness ==
    /\ CsvDone
    /\ IsOk(fetched)
    /\ Len(CsvRecords) = 3
    /\ LET rows == RowPositions
       IN  /\ ParsedRows(rows) = {1, 2, 3}
           /\ RowUnix(rows, 1) = CsvCall.end.unix
           /\ RowUnix(rows, 2) = CsvCall.end.unix + 1
           /\ RowUnix(rows, 3) = CsvCall.start.unix
    /\ Len(Fetched) = 2
    /\ Fetched[1].pos.id = 1
    /\ Fetched[2].pos.id = 3
    /\ Len(Returned) = 1
    /\ TrackIds(Returned[1]) = {1, 3}

\* the header of the file was read and names the three columns, and every
\* record was read
CsvReadable ==
    /\ CsvDone
    /\ IsOk(CsvCall.rdr.headers)
    /\ IsOk(ParseHeader(CsvCall.fields, CsvCall.rdr.headers[2]))
    /\ \A i \in 1..Len(CsvRecords) : IsOk(CsvRecords[i])

\* the columns of the file
CsvColumns == ParseHeader(CsvCall.fields, CsvCall.rdr.headers[2])[2]

\* the parts that the coordinates field of the i-th record splits into;
\* none when the record has no such field
CoordinateParts(i) ==
    LET field == Get(TrimRecord(CsvRecords[i][2]), CsvColumns.coordinates)
    IN  IF field = None THEN <<>>
        ELSE TrimAll(Split(Unwrap(field), SeparatorOf(Unwrap(field))))

\* a record to skip: fewer than 3 fields, or coordinates that are missing,
\* empty or not two parts
Skippable(i) == Len(CsvRecords[i][2]) < 3 \/ Len(CoordinateParts(i)) # 2

\* a record to fail on: two coordinate parts that are not both numbers, or
\* a timestamp that is missing or does not parse
Failing(i) ==
    /\ ~Skippable(i)
    /\ \/ \E p \in 1..2 : IsErr(ParseF64(CoordinateParts(i)[p]))
       \/ LET field == Get(TrimRecord(CsvRecords[i][2]), CsvColumns.time)
          IN  field = None \/ IsErr(ParseRfc3339(Unwrap(field)))

\* C25: CsvSource::fetch skips a row whose coordinates field is missing,
\* empty or not two parts, and a row of fewer than 3 fields, and returns
\* the other rows; it fails only on a row with two coordinate parts that
\* are not numbers or with a timestamp that does not parse.
C25_SkipsRowsWithoutCoordinates ==
    CsvReadable =>
        /\ IsErr(fetched) => \E i \in 1..Len(CsvRecords) : Failing(i)
        /\ IsOk(fetched) =>
              { Fetched[k].pos.id : k \in 1..Len(Fetched) }
                = { i \in 1..Len(CsvRecords) \ { j \in 1..Len(CsvRecords) : Skippable(j) } :
                      InWindow(CsvCall.start, CsvCall.end,
                               ParseRfc3339(TrimRecord(CsvRecords[i][2])[CsvColumns.time])[2]) }

\* ------------------------------------------------ claims: MongoDbSource
\* SourceToTracks::build returned from a MongoDbSource whose fetch succeeded
MongoDone == pc = "done" /\ mongo # None /\ IsOk(fetched)

MongoCall == Unwrap(mongo)

\* the document a fetched position was parsed from, and an entry of it
DocOf(pos) == MongoCall.collection.docs[pos.pos.id]

DeviceOf(pos) == Unwrap(DocGet(DocOf(pos), MongoCall.fields.device_id))

RouteValueOf(pos) == DocGet(DocOf(pos), MongoCall.fields.route)

\* the text is the decimal form of the integer n
DenotesInt(text, n) == ParseF64(text) = Ok(n)

\* the text is the decimal form of a number of tenths: its whole part,
\* followed by "." and the tenth when there is one
DenotesTenths(text, tenths) ==
    LET parts == Split(text, 46)
    IN  IF tenths % 10 = 0 THEN DenotesInt(text, tenths \div 10)
        ELSE /\ Len(parts) = 2
             /\ DenotesInt(parts[1], tenths \div 10)
             /\ DenotesInt(parts[2], tenths % 10)

\* the route label of a bson value: a string; the decimal form of an Int32;
\* the first element of an array when that is one of the two; absent
\* otherwise
IsLabelOf(label, value) ==
    LET first == IF value.type = "Array" /\ Len(value.value) > 0
                 THEN value.value[1] ELSE value
    IN  CASE first.type = "String" -> label = Some(first.value)
          [] first.type = "Int32"  ->
               label # None /\ DenotesInt(Unwrap(label), first.value)
          [] OTHER -> label = None

\* the Tracks with a waypoint of the fetched position
TracksOf(pos) == { k \in 1..Len(Returned) : pos.pos.id \in TrackIds(Returned[k]) }

\* C26: MongoDbSource gives a numeric device id as its decimal string and
\* a route as its label (the string, the decimal form of an Int32, or the
\* first element of a non-empty array when that is a string or an Int32,
\* none otherwise); positions of one device whose routes give the same
\* label are in the same Track, named by the label, and a position with a
\* null route is in a Track named by its date.
C26_IdentifiersCoerced ==
    MongoDone =>
        /\ IsOk(tracks)
        /\ \A i \in 1..Len(Fetched) :
              LET pos == Fetched[i]
              IN  /\ CASE DeviceOf(pos).type \in {"Int32", "Int64"} ->
                            DenotesInt(pos.device_id, DeviceOf(pos).value)
                       [] DeviceOf(pos).type = "Double" ->
                            DenotesTenths(pos.device_id, DeviceOf(pos).value)
                       [] OTHER -> pos.device_id = DeviceOf(pos).value
                  /\ IF RouteValueOf(pos) = None THEN pos.route_name = None
                     ELSE IsLabelOf(pos.route_name, Unwrap(RouteValueOf(pos)))
                  /\ Cardinality(TracksOf(pos)) = 1
                  /\ \A k \in TracksOf(pos) :
                        IF pos.route_name # None
                        THEN IsTrackOf(Returned[k], pos.device_id, Unwrap(pos.route_name))
                        ELSE IsTrackOf(Returned[k], pos.device_id,
                                       FormatDay(pos.pos.time)[2])
        /\ \A i \in 1..Len(Fetched), j \in 1..Len(Fetched) :
              (/\ Fetched[i].device_id = Fetched[j].device_id
               /\ Fetched[i].route_name # None
               /\ Fetched[i].route_name = Fetched[j].route_name)
                 => TracksOf(Fetched[i]) = TracksOf(Fetched[j])

\* the devices 251 (an Int32), "251" and 251.0 with the routes ["01"],
\* ["01", "02"] and null: the first two are in the Track "01" of the
\* device "251", the third in the Track of the day
C26_Witness ==
    /\ MongoDone
    /\ Len(Fetched) = 3
    /\ DeviceOf(Fetched[1]).type = "Int32"
    /\ DeviceOf(Fetched[2]).type = "String"
    /\ DeviceOf(Fetched[3]).type = "Double"
    /\ \A i \in 1..3 : RouteValueOf(Fetched[i]) # None
    /\ Unwrap(RouteValueOf(Fetched[1])).type = "Array"
    /\ Unwrap(RouteValueOf(Fetched[2])).type = "Array"
    /\ Len(Unwrap(RouteValueOf(Fetched[2])).value) = 2
    /\ Unwrap(RouteValueOf(Fetched[3])).type = "Null"
    /\ Len(Returned) = 2
    /\ IsTrackOf(Returned[1], Text251, Text01)
    /\ TrackIds(Returned[1]) = {1, 2}
    /\ TrackIds(Returned[2]) = {3}
    /\ Returned[2].name = Some(FormatDay(Fetched[3].pos.time)[2])

\* -------------------------------------------------- claims: load_configs
\* the configuration that was loaded
Loaded == Unwrap(configs)

\* what the file that was read supplies under a key: the mapping of the
\* key, nothing when the key or the file is not there
Supplied(key) ==
    IF FirstRead(files) = None \/ Unwrap(FirstRead(files))[key] = None THEN <<>>
    ELSE Unwrap(Unwrap(FirstRead(files))[key])

\* the file supplies no max_duration that a u16 cannot hold
SuppliedValid ==
    "max_duration" \in DOMAIN Supplied("segments")
       => Supplied("segments")["max_duration"] \in 0..MaxU16

\* C27: the configuration loaded from a file has, for every field the file
\* supplies, the value supplied, and for every field it omits the default:
\* the field names device, time, coordinates, route, speed, elevation, no
\* flip of the coordinates, a max_duration of 300 and no tolerance.
C27_DefaultsForOmittedFields ==
    (pc = "loaded" /\ SuppliedValid) =>
        /\ \A n \in DOMAIN FieldsConfigurationDefault :
              Loaded.fields[n] = IF n \in DOMAIN Supplied("fields")
                                 THEN Supplied("fields")[n]
                                 ELSE FieldsConfigurationDefault[n]
        /\ Loaded.segments.max_duration
              = IF "max_duration" \in DOMAIN Supplied("segments")
                THEN Supplied("segments")["max_duration"]
                ELSE DefaultMaxDuration
        /\ Loaded.segments.vw_tolerance
              = IF "vw_tolerance" \in DOMAIN Supplied("segments")
                THEN Some(Supplied("segments")["vw_tolerance"])
                ELSE None
        /\ FieldsConfigurationDefault =
              [ device_id        |-> DeviceName,
                time             |-> TimeName,
                coordinates      |-> CoordinatesName,
                route            |-> RouteName,
                speed            |-> SpeedName,
                elevation        |-> ElevationName,
                flip_coordinates |-> FALSE ]

====
